---- MODULE Spec2Model ----
(***************************************************************************)
(* Model of the document text-extraction core:                             *)
(*   - extractPdfText / smartTextExtraction (utils/pdf-text-extraction.ts) *)
(*   - ocrFullPage, preprocessCanvas (utils/ocr-improved.ts and the        *)
(*     enhanced OCR module)                                                *)
(*   - enhanceImageForOCR, getOptimalScale (utils/image-enhancement.ts)    *)
(*                                                                         *)
(* Conventions.  A string is a sequence of one-character strings.  A       *)
(* scale factor is kept in tenths (1.5 is 15), so floor(dim * scale) is    *)
(* (dim * scale10) \div 10.  Undef stands for an option key that is absent *)
(* (JavaScript undefined).                                                 *)
(***************************************************************************)
EXTENDS Integers, Sequences, FiniteSets, TLC

VARIABLES
    \* ---- one invocation of smartTextExtraction ----
    pc,           \* position of the invocation
    pageIndex,    \* argument pageIndex
    items,        \* textContent.items returned by the structured-text source
    pdfRegions,   \* value extractPdfText resolved with
    ocrFn,        \* the ocrFullPageFn argument, as read when it is called
    canvas,       \* <<width, height>> of the canvas as read by ocrFullPage
    processed,    \* <<width, height>> of the preprocessed canvas
    ocrCalls,     \* number of invocations of ocrFullPageFn
    recognizeCalls, \* number of invocations of Tesseract.recognize
    result,       \* value smartTextExtraction resolved with
    raised,       \* TRUE iff the invocation rejected (exception reached the caller)
    outcome,      \* what each collaborator did in this invocation, and the
                  \* error that was thrown last
    nextId,       \* source of fresh region ids (crypto.randomUUID)
    \* ---- the grouping of extractPdfText applied to one item list ----
    gpc,          \* "call" before the grouping ran, "done" after
    gitems,       \* textContent.items
    gpage,        \* argument pageIndex
    gsorted,      \* sortedItems, the order the loop sweeps
    gregions,     \* the regions extractPdfText returns
    \* ---- one invocation of enhanceImageForOCR ----
    epc,          \* position inside enhanceImageForOCR
    esrc,         \* <<width, height>> of the source canvas
    eopts,        \* options record handed in by the caller
    evia,         \* "direct" or "preprocess" (through preprocessCanvas)
    eeff,         \* the destructured options enhanceImageForOCR works with
    eout,         \* <<width, height>> of the output canvas
    estages,      \* the stages run so far, in order
    ethrew,       \* TRUE iff enhanceImageForOCR threw
    \* ---- getOptimalScale applied to two canvas sizes ----
    spc,          \* "call" before the two calls, "done" after
    sizeA,        \* <<originalWidth, originalHeight>> of the first call
    sizeB,        \* <<originalWidth, originalHeight>> of the second call
    scaleA,       \* value the first call returned, in tenths
    scaleB,       \* value the second call returned, in tenths
    \* ---- calls of getOptimalConfig ----
    cfresh,       \* the config objects created by object literals, in order
    ccalls,       \* the calls made so far: arguments, profile selected by
                  \* the switch, returned reference, returned value
    \* ---- one call of detectLayout ----
    lpc,          \* "call" before the call, "done" after
    lcanvas,      \* <<width, height>> of the canvas argument
    lregions,     \* the list detectLayout resolved with
    \* ---- one PdfViewer instance with a loaded document ----
    vnumPages,    \* state numPages
    vpageIndex,   \* prop pageIndex
    vrunning,     \* state running
    vbatch,       \* state batchProcessing
    vprogress,    \* state batchProgress, <<current, total>>
    vops,         \* the operations started and not yet settled, in order of
                  \* their start: kind and the page index each works on
    vstarted,     \* number of operations started by a click
    vids,         \* number of region ids drawn so far
    vregions,     \* argument of the last call of onRegionsChange
    vlast,        \* arguments of the last call of onExtracted
    bpc,          \* position of handleBatchProcessAllPages
    bi,           \* its loop variable i
    bcalled,      \* per page, the list this batch handed to onExtracted
    bfailed,      \* per page, the step that failed in this batch
    baborted,     \* TRUE iff the promise of the batch handler rejected
    \* ---- one call of ocrFullPage of the enhanced OCR module ----
    fpc,          \* position inside ocrFullPage
    fcanvas,      \* <<width, height>> of the canvas argument
    feff,         \* the options enhanceImageForOCR works with
    fstages,      \* the stages enhanceImageForOCR ran
    fprocessed,   \* <<width, height>> of processedCanvas
    fsel,         \* arguments of the call of getOptimalConfig, when made
    fresult,      \* the list ocrFullPage resolved with
    \* ---- one call of applyGaussianBlur on one colour channel ----
    blurPc,       \* "call" before the call, "done" after
    original,     \* the channel at entry, original[y][x]
    data,         \* the channel as the call leaves it
    \* ---- one call of ocrRegions ----
    rpc,          \* position inside ocrRegions
    rmodule,      \* the module whose ocrRegions runs
    rpage,        \* argument page
    rregions,     \* argument regions
    ri,           \* loop variable i, counted from 1
    rresults,     \* the array results
    rinvoked,     \* indices for which Tesseract.recognize was called
    rfailed,      \* per index, the error caught for it, when one was
    \* ---- the module utils/nlp.ts and the calls of answerQuestion in flight ----
    qaPipePromise,\* module variable qaPipePromise: 0 for null, else a promise
    qpipes,       \* per promise the pipeline factory returned, its state
    qpc,          \* per caller, the position of its call of answerQuestion
    qret,         \* per caller, the promise its last loadQAPipeline returned
    qasks,        \* per caller, the number of calls it has made
    \* ---- the PdfViewer that renders every page into one canvas ----
    sPageIndex,   \* prop pageIndex
    sCanvas,      \* what the canvas holds: the page drawn last, and whether its rendering finished
    sRenders,     \* runs of the render effect in flight: page and position
    sRunning,     \* state running
    sOp,          \* the handler in flight, when there is one
    sExtracted,   \* last call of onExtracted: its page, and the page read
    sClicks,      \* number of clicks so far
    \* ---- the Home page and the viewer it mounts ----
    hFile,        \* state file: absent, or the identity and kind of the uploaded file
    hPageIndex,   \* state pageIndex
    extractedText,\* state extractedText, as committed by the last render
    hUpdates,     \* updates of extractedText queued for the next render
    hOps,         \* extractions and batches in flight
    hMount,       \* number of viewers mounted so far
    hLog,         \* every call of onExtracted and every reset, in order
    hEvents       \* number of user events so far

orchVars == <<pc, pageIndex, items, pdfRegions, ocrFn, canvas, processed,
              ocrCalls, recognizeCalls, result, raised, outcome, nextId>>
enhVars == <<epc, esrc, eopts, evia, eeff, eout, estages, ethrew>>
groupVars == <<gpc, gitems, gpage, gsorted, gregions>>
scaleVars == <<spc, sizeA, sizeB, scaleA, scaleB>>
cfgVars == <<cfresh, ccalls>>
viewVars == <<vnumPages, vpageIndex, vrunning, vbatch, vprogress, vops,
              vstarted, vids, vregions, vlast, bpc, bi, bcalled, bfailed,
              baborted>>
layoutVars == <<lpc, lcanvas, lregions>>
fullVars == <<fpc, fcanvas, feff, fstages, fprocessed, fsel, fresult>>
blurVars == <<blurPc, original, data>>
regionVars == <<rpc, rmodule, rpage, rregions, ri, rresults, rinvoked, rfailed>>
qaVars == <<qaPipePromise, qpipes, qpc, qret, qasks>>
sharedVars == <<sPageIndex, sCanvas, sRenders, sRunning, sOp, sExtracted, sClicks>>
homeVars == <<hFile, hPageIndex, extractedText, hUpdates, hOps, hMount, hLog, hEvents>>
vars == <<orchVars, groupVars, enhVars, scaleVars, cfgVars, viewVars,
          layoutVars, fullVars, blurVars, regionVars, qaVars, sharedVars,
          homeVars>>

\* what an action of one group leaves alone
othersOfOrch == <<groupVars, enhVars, scaleVars, cfgVars, viewVars,
                  layoutVars, fullVars, blurVars, regionVars, qaVars,
                  sharedVars, homeVars>>
othersOfGroup == <<orchVars, enhVars, scaleVars, cfgVars, viewVars,
                   layoutVars, fullVars, blurVars, regionVars, qaVars,
                   sharedVars, homeVars>>
othersOfEnh == <<orchVars, groupVars, scaleVars, cfgVars, viewVars,
                 layoutVars, fullVars, blurVars, regionVars, qaVars,
                 sharedVars, homeVars>>
othersOfScale == <<orchVars, groupVars, enhVars, cfgVars, viewVars,
                   layoutVars, fullVars, blurVars, regionVars, qaVars,
                   sharedVars, homeVars>>
othersOfCfg == <<orchVars, groupVars, enhVars, scaleVars, viewVars,
                 layoutVars, fullVars, blurVars, regionVars, qaVars,
                 sharedVars, homeVars>>
othersOfView == <<orchVars, groupVars, enhVars, scaleVars, cfgVars,
                  layoutVars, fullVars, blurVars, regionVars, qaVars,
                  sharedVars, homeVars>>
othersOfLayout == <<orchVars, groupVars, enhVars, scaleVars, cfgVars,
                    viewVars, fullVars, blurVars, regionVars, qaVars,
                    sharedVars, homeVars>>
othersOfFull == <<orchVars, groupVars, enhVars, scaleVars, cfgVars, viewVars,
                  layoutVars, blurVars, regionVars, qaVars, sharedVars,
                  homeVars>>
othersOfBlur == <<orchVars, groupVars, enhVars, scaleVars, cfgVars, viewVars,
                  layoutVars, fullVars, regionVars, qaVars, sharedVars,
                  homeVars>>
othersOfRegion == <<orchVars, groupVars, enhVars, scaleVars, cfgVars,
                    viewVars, layoutVars, fullVars, blurVars, qaVars,
                    sharedVars, homeVars>>
othersOfQA == <<orchVars, groupVars, enhVars, scaleVars, cfgVars, viewVars,
                layoutVars, fullVars, blurVars, regionVars, sharedVars,
                homeVars>>
othersOfShared == <<orchVars, groupVars, enhVars, scaleVars, cfgVars,
                    viewVars, layoutVars, fullVars, blurVars, regionVars,
                    qaVars, homeVars>>
othersOfHome == <<orchVars, groupVars, enhVars, scaleVars, cfgVars, viewVars,
                  layoutVars, fullVars, blurVars, regionVars, qaVars,
                  sharedVars>>

\* An optional value (an option key, a property that may be undefined) is <<>>
\* when absent and <<v>> when present.
Undef == <<>>
Some(v) == <<v>>
OrDefault(o, d) == IF o = Undef THEN d ELSE o[1]

\* let currentRegion = null
NoRegion == [open |-> FALSE]

\* ------------------------------------------------------------------ bounds
MaxFrags == 2
MaxPage == 1
MaxSmallDim == 3
MaxClicks == 3
MaxHomeEvents == 4
MaxChain == 3
MaxImageDim == 3
MaxRegions == 2
MaxCallers == 2
MaxAsks == 2

\* ------------------------------------------------------- program constants
LINE_HEIGHT_THRESHOLD == 5
MIN_REGION_HEIGHT == 20
HorizontalVariance == 50
NativeConfidence == 1
ErrorConfidence == 0
LargeImagePixels == 1000000
LargeImageScale10 == 15
FullPageMaxScale10 == 20
FullPageMaxDim == 2000
PreprocessMaxScale10 == 20
PreprocessMaxDim == 4000
EnhanceDefaultMaxDim == 3000
EnhanceDefaultScale10 == 10
MinScale10 == 10
MaxScale10 == 40
\* 2 * 300 * 8.5 * 10: twice the target density times the assumed diagonal,
\* in tenths
TargetDensityNumerator == 51000
HighResPixels == 2000000
LowResPixels == 500000
LayoutMargin == 50
LayoutMaxHeight == 200
LayoutSecondOffset == 60
LayoutThirdOffset == 70
LayoutMinHeight == 50
DisplayScale == 4
BatchScale == 2

\* ------------------------------------------------------------ arithmetic
Abs(n) == IF n < 0 THEN -n ELSE n
Min(a, b) == IF a <= b THEN a ELSE b
Max(a, b) == IF a >= b THEN a ELSE b

\* ---------------------------------------------------------------- strings
IsSpace(c) == c = " "

RECURSIVE TrimStart(_)
TrimStart(s) ==
    IF s = <<>> THEN <<>>
    ELSE IF IsSpace(Head(s)) THEN TrimStart(Tail(s)) ELSE s

RECURSIVE TrimEnd(_)
TrimEnd(s) ==
    IF s = <<>> THEN <<>>
    ELSE IF IsSpace(s[Len(s)]) THEN TrimEnd(SubSeq(s, 1, Len(s) - 1)) ELSE s

\* String.prototype.trim
Trim(s) == TrimEnd(TrimStart(s))

ErrorPrefix == <<"[", "O", "C", "R", " ", "E", "r", "r", "o", "r", ":", " ">>
ErrorSuffix == <<"]">>
\* the template literal `[OCR Error: ${error}]`
ErrorText(err) == ErrorPrefix \o err \o ErrorSuffix

\* ------------------------------------------------------------- fragments
\* A text item of textContent.items: str, transform[4] (x), transform[5] (y),
\* width and height.
Strs == {<<"a">>, <<" ">>, <<" ", "b", " ">>}
Xs == {0, 100}
Ys == {100, 104, 108, 140}
Widths == {40, 60}
Heights == {12, 24}
GridFragments ==
    {f \in [str : Strs, x : Xs, y : Ys, width : Widths, height : Heights] :
        f.x = 0 \/ f.width = 40}

\* the two fragments of the invoice scenario
InvoiceText == <<"I", "#", "4", "2">>
TotalText == <<"T", "$", "9", "9">>
InvoiceFragment == [str |-> InvoiceText, x |-> 50, y |-> 1300, width |-> 180, height |-> 24]
TotalFragment == [str |-> TotalText, x |-> 50, y |-> 1260, width |-> 200, height |-> 24]

Fragments == GridFragments \cup {InvoiceFragment, TotalFragment}
ItemLists == UNION {[1..n -> Fragments] : n \in 0..MaxFrags}

\* the fragments of a page laid out in one column of equal-width lines
ColumnFragments == {f \in GridFragments : f.x = 0 /\ f.width = 60 /\ f.y \in {100, 140}}
ColumnLists == UNION {[1..n -> ColumnFragments] : n \in 0..MaxFrags}

\* !item.str.trim()
IsBlank(item) == Trim(item.str) = <<>>

\* --------------------------------------------------------------- grouper
\* mutant of Compare: sorts by ascending Y
CompareAscendingY(a, b) ==
    LET yDiff == a.y - b.y
    IN  IF Abs(yDiff) > LINE_HEIGHT_THRESHOLD THEN yDiff ELSE a.x - b.x

\* the comparator handed to textContent.items.sort
Compare(a, b) ==
    LET yDiff == b.y - a.y
    IN  IF Abs(yDiff) > LINE_HEIGHT_THRESHOLD THEN yDiff ELSE a.x - b.x

\* Array.prototype.sort is stable: an element goes after every element that
\* does not compare greater than it.
RECURSIVE InsertSorted(_, _)
InsertSorted(s, e) ==
    IF s = <<>> THEN <<e>>
    ELSE IF Compare(s[Len(s)], e) <= 0 THEN Append(s, e)
    ELSE Append(InsertSorted(SubSeq(s, 1, Len(s) - 1), e), s[Len(s)])

RECURSIVE SortItems(_)
SortItems(its) ==
    IF its = <<>> THEN <<>>
    ELSE InsertSorted(SortItems(SubSeq(its, 1, Len(its) - 1)), its[Len(its)])

\* the condition under which an item extends the current region
Joins(cur, item) ==
    /\ cur.open
    /\ Abs(item.y - cur.lastY) <= LINE_HEIGHT_THRESHOLD * 2
    /\ item.x >= cur.bbox.x - HorizontalVariance
    /\ item.x <= cur.bbox.x + cur.bbox.width + HorizontalVariance

\* "Extend current region"
ExtendRegion(cur, item) ==
    [open |-> TRUE,
     bbox |-> [x |-> cur.bbox.x,
               y |-> cur.bbox.y,
               width |-> Max(cur.bbox.width, item.x + item.width - cur.bbox.x),
               height |-> Max(cur.bbox.height,
                              Abs(item.y - cur.bbox.y) + item.height)],
     text |-> cur.text \o item.str,
     lastY |-> item.y]

\* "Start new region": currentRegion = { bbox: {x, y: y - height, ...}, ... }
StartRegion(item) ==
    [open |-> TRUE,
     bbox |-> [x |-> item.x, y |-> item.y - item.height,
               width |-> item.width, height |-> item.height],
     text |-> item.str,
     lastY |-> item.y]

\* mutant of MakeRegion: the text is pushed as accumulated, not trimmed
MakeRegionUntrimmed(cur, page, id) ==
    [id |-> id, page |-> page, type |-> "paragraph", bbox |-> cur.bbox,
     text |-> cur.text, confidence |-> NativeConfidence]

\* the object pushed onto regions when a region is closed
MakeRegion(cur, page, id) ==
    [id |-> id, page |-> page, type |-> "paragraph", bbox |-> cur.bbox,
     text |-> Trim(cur.text), confidence |-> NativeConfidence]

\* mutant of Emits: the height of the region is not looked at
EmitsAnyHeight(cur) == cur.open

\* currentRegion && currentRegion.bbox.height >= MIN_REGION_HEIGHT
Emits(cur) == cur.open /\ cur.bbox.height >= MIN_REGION_HEIGHT

PushIfEmitted(regions, cur, page, idBase) ==
    IF Emits(cur)
    THEN Append(regions, MakeRegion(cur, page, idBase + Len(regions)))
    ELSE regions

\* one iteration of the for loop over sortedItems
GroupStep(acc, item, page, idBase) ==
    IF IsBlank(item) THEN acc
    ELSE IF Joins(acc.cur, item)
    THEN [regions |-> acc.regions, cur |-> ExtendRegion(acc.cur, item)]
    ELSE [regions |-> PushIfEmitted(acc.regions, acc.cur, page, idBase),
          cur |-> StartRegion(item)]

RECURSIVE Sweep(_, _, _)
Sweep(sorted, page, idBase) ==
    IF sorted = <<>> THEN [regions |-> <<>>, cur |-> NoRegion]
    ELSE GroupStep(Sweep(SubSeq(sorted, 1, Len(sorted) - 1), page, idBase),
                   sorted[Len(sorted)], page, idBase)

\* the synchronous part of extractPdfText, from the textContent check to
\* "return regions", for items the comparator orders consistently
GroupItems(its, page, idBase) ==
    IF its = Undef \/ Len(its[1]) = 0 THEN <<>>
    ELSE LET acc == Sweep(SortItems(its[1]), page, idBase)
         IN  PushIfEmitted(acc.regions, acc.cur, page, idBase)

\* The comparator is a consistent comparator for the items (the condition
\* under which Array.prototype.sort defines the resulting order): "equal",
\* "before" and "after" are each transitive. Compare(a, b) = -Compare(b, a)
\* and Compare(a, a) = 0 by its form, so only triples of distinct positions
\* can fail.
ConsistentComparator(its) ==
    \A i \in 1..Len(its) :
        \A j \in 1..Len(its) \ {i} :
        \A k \in 1..Len(its) \ {i, j} :
            LET ab == Compare(its[i], its[j])
                bc == Compare(its[j], its[k])
                ac == Compare(its[i], its[k])
            IN  /\ (ab = 0 /\ bc = 0) => ac = 0
                /\ (ab < 0 /\ bc < 0) => ac < 0
                /\ (ab > 0 /\ bc > 0) => ac > 0

\* the items in every order
OrdersOf(its) ==
    LET n == Len(its)
        ps == {p \in [1..n -> 1..n] : \A i \in 1..n, j \in 1..n : p[i] = p[j] => i = j}
    IN  {[i \in 1..n |-> its[p[i]]] : p \in ps}

\* what textContent.items.sort(comparator) can leave: the stable sorted
\* order when the comparator is consistent for the items, else an order
\* the engine chooses
SortOutcomes(its) ==
    IF ConsistentComparator(its) THEN {SortItems(its)} ELSE OrdersOf(its)

\* the loop over sortedItems and "Add the last region", after the check of
\* textContent.items.length
GroupSorted(its, sorted, page, idBase) ==
    IF Len(its) = 0 THEN <<>>
    ELSE LET acc == Sweep(sorted, page, idBase)
         IN  PushIfEmitted(acc.regions, acc.cur, page, idBase)

\* ----------------------------------------------------------- enhancement
\* floor(2550^2 * 400 / m^2) computed without leaving 32 bits: the largest
\* pixel count for which 300 / (sqrt(pixels) / 8.5) * 10 is at least m / 2
DensityThreshold(m) ==
    LET n == TargetDensityNumerator
    IN  ((n * (n \div m)) + ((n * (n % m)) \div m)) \div m

\* mutant of GetOptimalScale10: Math.min(4, ...) is left out
GetOptimalScale10NoCeiling(w, h) ==
    LET ks == {k \in MinScale10..(10 * MaxScale10) :
                  k = MinScale10 \/ w * h <= DensityThreshold(2 * k - 1)}
    IN  CHOOSE k \in ks : \A j \in ks : j <= k

\* getOptimalScale, in tenths: Math.round(Math.min(4, Math.max(1, 300 /
\* (Math.sqrt(w * h) / 8.5))) * 10); Math.round(v) is k iff k - 0.5 <= v < k + 0.5
GetOptimalScale10(w, h) ==
    LET ks == {k \in MinScale10..MaxScale10 :
                  k = MinScale10 \/ w * h <= DensityThreshold(2 * k - 1)}
    IN  CHOOSE k \in ks : \A j \in ks : j <= k

\* mutant of ScaledDim: the safety limit is not applied
ScaledDimUnclamped(srcDim, scale10, maxDim) == (srcDim * scale10) \div 10

\* Math.min(Math.floor(canvas.width * scale), maxWidth), and the same for
\* the height
ScaledDim(srcDim, scale10, maxDim) == Min((srcDim * scale10) \div 10, maxDim)

\* an options object with no keys
NoOptions ==
    [scale |-> Undef, maxWidth |-> Undef, maxHeight |-> Undef,
     sharpen |-> Undef, denoise |-> Undef, enhanceContrast |-> Undef,
     adaptiveThreshold |-> Undef, antiAlias |-> Undef,
     preserveAspectRatio |-> Undef]

\* { ...defaults, ...options }: a key of options wins when it is present
Spread(defaults, options) ==
    [k \in DOMAIN defaults |->
        IF options[k] # Undef THEN options[k] ELSE defaults[k]]

\* preprocessCanvas of the enhanced OCR module: the options object it hands
\* to enhanceImageForOCR
PreprocessOptions(src, options) ==
    LET scale == IF options.scale # Undef /\ options.scale[1] # 0
                 THEN options.scale[1]
                 ELSE Min(PreprocessMaxScale10, GetOptimalScale10(src[1], src[2]))
        defaults == [scale |-> Some(scale),
                     sharpen |-> Some(TRUE),
                     denoise |-> Some(TRUE),
                     enhanceContrast |-> Some(TRUE),
                     adaptiveThreshold |-> Some(TRUE),
                     antiAlias |-> Some(TRUE),
                     maxWidth |-> Some(PreprocessMaxDim),
                     maxHeight |-> Some(PreprocessMaxDim),
                     preserveAspectRatio |-> Some(TRUE)]
    IN  Spread(defaults, options)

\* the destructuring at the head of enhanceImageForOCR; preserveAspectRatio
\* is not among the names it takes from options
EnhanceDefaults(options) ==
    [scale |-> OrDefault(options.scale, EnhanceDefaultScale10),
     sharpen |-> OrDefault(options.sharpen, TRUE),
     denoise |-> OrDefault(options.denoise, TRUE),
     enhanceContrast |-> OrDefault(options.enhanceContrast, TRUE),
     adaptiveThreshold |-> OrDefault(options.adaptiveThreshold, TRUE),
     antiAlias |-> OrDefault(options.antiAlias, TRUE),
     maxWidth |-> OrDefault(options.maxWidth, EnhanceDefaultMaxDim),
     maxHeight |-> OrDefault(options.maxHeight, EnhanceDefaultMaxDim)]

\* outputCanvas.width, outputCanvas.height
OutputSize(src, eff) ==
    <<ScaledDim(src[1], eff.scale, eff.maxWidth),
      ScaledDim(src[2], eff.scale, eff.maxHeight)>>

\* the four "if (toggle) filter(...)" statements: the filters that run for a
\* set of destructured options, in the order of the statements
EnabledStages(eff) ==
    (IF eff.denoise THEN <<"denoise">> ELSE <<>>)
    \o (IF eff.sharpen THEN <<"sharpen">> ELSE <<>>)
    \o (IF eff.enhanceContrast THEN <<"contrast">> ELSE <<>>)
    \o (IF eff.adaptiveThreshold THEN <<"threshold">> ELSE <<>>)

\* createGaussianKernel(0.5): size = ceil(0.5 * 3) * 2 + 1 = 5 and the
\* weights exp(-x * x / (2 * 0.5 * 0.5)) for x = -2 .. 2, in millionths. The
\* normalisation of the kernel cancels in sum / weightSum.
GaussianKernel == <<335, 135335, 1000000, 135335, 335>>
KernelOffset == Len(GaussianKernel) \div 2

RECURSIVE SumTo(_, _)
SumTo(f, n) == IF n = 0 THEN 0 ELSE f[n] + SumTo(f, n - 1)

\* Math.round of num / den for num >= 0, den > 0
RoundDiv(num, den) == (2 * num + den) \div (2 * den)

\* Math.min(Math.max(x + i - offset, 0), width - 1), positions counted from 1
ClampedColumn(x, i, width) == Min(Max(x + (i - 1) - KernelOffset, 1), width)

\* the value the horizontal pass stores at row y, column x
BlurredValue(orig, y, x) ==
    LET width == Len(orig[y])
        n == Len(GaussianKernel)
        terms == [i \in 1..n |-> orig[y][ClampedColumn(x, i, width)] * GaussianKernel[i]]
    IN  RoundDiv(SumTo(terms, n), SumTo(GaussianKernel, n))

\* applyGaussianBlur(data, width, height, 0.5) on one colour channel: the
\* function body is the horizontal pass
ApplyGaussianBlur(orig) ==
    [y \in 1..Len(orig) |-> [x \in 1..Len(orig[y]) |-> BlurredValue(orig, y, x)]]

\* ctx.getImageData(0, 0, scaledWidth, scaledHeight) throws IndexSizeError
\* when either extent is zero
GetImageDataThrows(size) == size[1] = 0 \/ size[2] = 0

\* ------------------------------------------------- recognition profiles
\* { ...base, ...over }: the keys of both, a key of over wins
ObjectSpread(base, over) ==
    [k \in (DOMAIN base) \cup (DOMAIN over) |->
        IF k \in DOMAIN over THEN over[k] ELSE base[k]]

\* The values of textord_min_xheight and textord_noise_sizefraction are
\* strings of characters; the other values are kept as written.
HIGH_QUALITY_CONFIG ==
    [tessedit_pageseg_mode |-> "PSM.AUTO",
     tessedit_ocr_engine_mode |-> "OEM.LSTM_ONLY",
     tessedit_char_blacklist |-> "",
     preserve_interword_spaces |-> "1",
     tessedit_do_invert |-> "0",
     tessedit_create_hocr |-> "0",
     tessedit_create_tsv |-> "0",
     tessedit_write_images |-> "0",
     load_system_dawg |-> "1",
     load_freq_dawg |-> "1",
     load_unambig_dawg |-> "1",
     load_punc_dawg |-> "1",
     load_number_dawg |-> "1",
     load_bigram_dawg |-> "1",
     classify_enable_learning |-> "1",
     classify_enable_adaptive_matcher |-> "1",
     textord_heavy_nr |-> "1",
     textord_noise_sizefraction |-> <<"0", ".", "5">>,
     textord_noise_translimit |-> "16.0",
     textord_noise_normratio |-> "2.0",
     textord_min_xheight |-> <<"1", "0">>,
     textord_noise_rejwords |-> "1",
     textord_noise_rejrows |-> "1"]

SMALL_TEXT_CONFIG ==
    ObjectSpread(HIGH_QUALITY_CONFIG,
        [tessedit_pageseg_mode |-> "PSM.SINGLE_BLOCK",
         textord_min_xheight |-> <<"6">>,
         textord_noise_sizefraction |-> <<"0", ".", "3">>,
         classify_adapt_proto_threshold |-> "230",
         classify_adapt_feature_threshold |-> "230",
         edges_use_new_outline_complexity |-> "1",
         edges_debug |-> "0",
         wordrec_enable_assoc |-> "1",
         wordrec_worst_state |-> "1"])

SINGLE_LINE_CONFIG ==
    ObjectSpread(HIGH_QUALITY_CONFIG,
        [tessedit_pageseg_mode |-> "PSM.SINGLE_TEXT_LINE",
         textord_heavy_nr |-> "0",
         textord_noise_rejrows |-> "0",
         preserve_interword_spaces |-> "1"])

MULTI_COLUMN_CONFIG ==
    ObjectSpread(HIGH_QUALITY_CONFIG,
        [tessedit_pageseg_mode |-> "PSM.SINGLE_COLUMN",
         textord_tabfind_show_vlines |-> "0",
         textord_tabfind_show_initial_partitions |-> "0",
         textord_use_cjk_fp_model |-> "0"])

HANDWRITING_CONFIG ==
    ObjectSpread(HIGH_QUALITY_CONFIG,
        [tessedit_ocr_engine_mode |-> "OEM.DEFAULT",
         classify_adapt_proto_threshold |-> "200",
         classify_adapt_feature_threshold |-> "200",
         wordrec_enable_assoc |-> "1",
         classify_class_pruner_threshold |-> "200",
         classify_class_pruner_multiplier |-> "15"])

\* the exported profile objects as the module creates them
Profiles ==
    [HIGH_QUALITY_CONFIG |-> HIGH_QUALITY_CONFIG,
     SMALL_TEXT_CONFIG |-> SMALL_TEXT_CONFIG,
     SINGLE_LINE_CONFIG |-> SINGLE_LINE_CONFIG,
     MULTI_COLUMN_CONFIG |-> MULTI_COLUMN_CONFIG,
     HANDWRITING_CONFIG |-> HANDWRITING_CONFIG]

\* the switch of getOptimalConfig: the name of the profile config refers to
SelectBase(textSize, textType) ==
    CASE textType = "single_line" -> "SINGLE_LINE_CONFIG"
      [] textType = "multi_column" -> "MULTI_COLUMN_CONFIG"
      [] textType = "handwriting" -> "HANDWRITING_CONFIG"
      [] OTHER -> IF textSize = "small" THEN "SMALL_TEXT_CONFIG"
                  ELSE "HIGH_QUALITY_CONFIG"

\* const isHighRes = pixelCount > 2000000
IsHighRes(w, h) == w * h > HighResPixels
\* mutant of IsLowRes: a pixel count of exactly 500,000 counts as low
IsLowResInclusive(w, h) == w * h <= LowResPixels

\* const isLowRes = pixelCount < 500000
IsLowRes(w, h) == w * h < LowResPixels

HighResOverride ==
    [textord_noise_sizefraction |-> <<"0", ".", "4">>,
     textord_min_xheight |-> <<"8">>]

LowResOverride ==
    [textord_noise_sizefraction |-> <<"0", ".", "8">>,
     textord_min_xheight |-> <<"1", "2">>,
     textord_heavy_nr |-> "0"]

\* getOptimalConfig: the profile the switch selects, whether the return
\* statement taken builds a new object, and the value of the object returned.
\* An argument left out takes its default.
GetOptimalConfig(profiles, args) ==
    LET textSize == OrDefault(args.textSize, "medium")
        textType == OrDefault(args.textType, "paragraph")
        base == SelectBase(textSize, textType)
        config == profiles[base]
    IN  IF IsHighRes(args.width, args.height)
        THEN [base |-> base, created |-> TRUE,
              value |-> ObjectSpread(config, HighResOverride)]
        ELSE IF IsLowRes(args.width, args.height)
        THEN [base |-> base, created |-> TRUE,
              value |-> ObjectSpread(config, LowResOverride)]
        ELSE [base |-> base, created |-> FALSE, value |-> config]

\* a reference to a profile object, or to the n-th object a call created
ProfileRef(name) == [profile |-> name, created |-> 0]
CreatedRef(n) == [profile |-> "", created |-> n]
IsProfileRef(ref) == ref.created = 0

\* ------------------------------------------------------------ detectLayout
\* r => r.bbox.height > 50
HasReasonableHeight(r) == r.bbox.height > LayoutMinHeight

\* the array literal of detectLayout, for a canvas whose height is a
\* multiple of 3, so that height / 3 and (2 * height) / 3 are whole numbers
LayoutCandidates(cv, idBase) ==
    LET width == cv[1]
        height == cv[2]
        third == height \div 3
    IN  <<[id |-> idBase, page |-> 0, type |-> "paragraph",
           bbox |-> [x |-> LayoutMargin, y |-> LayoutMargin,
                     width |-> width - 2 * LayoutMargin,
                     height |-> Min(LayoutMaxHeight, third)],
           confidence |-> 1],
          [id |-> idBase + 1, page |-> 0, type |-> "paragraph",
           bbox |-> [x |-> LayoutMargin, y |-> third + LayoutSecondOffset,
                     width |-> width - 2 * LayoutMargin,
                     height |-> Min(LayoutMaxHeight, third)],
           confidence |-> 1],
          [id |-> idBase + 2, page |-> 0, type |-> "paragraph",
           bbox |-> [x |-> LayoutMargin, y |-> 2 * third + LayoutThirdOffset,
                     width |-> width - 2 * LayoutMargin,
                     height |-> Min(LayoutMaxHeight, third - LayoutThirdOffset)],
           confidence |-> 1]>>

\* detectLayout: the array literal, then .filter(r => r.bbox.height > 50)
DetectLayout(cv, idBase) ==
    SelectSeq(LayoutCandidates(cv, idBase), HasReasonableHeight)

\* ------------------------------------------------------------ ocrFullPage
\* sizes the page canvas can have when ocrFullPage reads it
CanvasSizes == {<<300, 150>>, <<1000, 1000>>, <<1500, 1000>>, <<3000, 1000>>}
\* the two modules that export ocrFullPage
OcrFullPageFns == {"improved", "enhanced"}
\* String(error) of a thrown error
ErrDetails == {<<"E", "1">>, <<"E", "2">>}
\* res.data of Tesseract.recognize
RecogResults ==
    [text : {<<>>, <<"o", "k">>, <<" ", "x", " ">>}, confidence : {0, 62, 95}]

\* mutant of IsLargeImage: a page of exactly 1,000,000 pixels counts as large
IsLargeImageInclusive(cv) == cv[1] * cv[2] >= LargeImagePixels

\* const isLargeImage = pixelCount > 1000000
IsLargeImage(cv) == cv[1] * cv[2] > LargeImagePixels

\* the options ocrFullPage (enhanced module) hands to preprocessCanvas
FullPageOptions(cv) ==
    [NoOptions EXCEPT
        !.scale = Some(IF IsLargeImage(cv) THEN LargeImageScale10
                       ELSE Min(FullPageMaxScale10, GetOptimalScale10(cv[1], cv[2]))),
        !.sharpen = Some(~IsLargeImage(cv)),
        !.denoise = Some(FALSE),
        !.enhanceContrast = Some(TRUE),
        !.adaptiveThreshold = Some(~IsLargeImage(cv)),
        !.maxWidth = Some(FullPageMaxDim),
        !.maxHeight = Some(FullPageMaxDim)]

\* size of the canvas preprocessCanvas returns: the improved module keeps
\* the size, the enhanced module goes through enhanceImageForOCR
ProcessedSize(fn, cv) ==
    IF fn = "improved" THEN cv
    ELSE OutputSize(cv, EnhanceDefaults(PreprocessOptions(cv, FullPageOptions(cv))))

\* the region both return statements of ocrFullPage build
FullPageRegion(cv, page, id, text, confidence) ==
    [id |-> id, page |-> page, type |-> "paragraph",
     bbox |-> [x |-> 0, y |-> 0, width |-> cv[1], height |-> cv[2]],
     text |-> text, confidence |-> confidence]

\* ocrFullPage, "return [{ ... text: res.data.text.trim(), confidence }]"
OcrFullPageReturn(cv, page, id, res) ==
    [raised |-> FALSE,
     value |-> <<FullPageRegion(cv, page, id, Trim(res.text), res.confidence)>>]

\* mutant of OcrFullPageCatch: the catch block returns no region
OcrFullPageCatchEmpty(cv, page, id, err) == [raised |-> FALSE, value |-> <<>>]

\* ocrFullPage, the catch block
OcrFullPageCatch(cv, page, id, err) ==
    [raised |-> FALSE,
     value |-> <<FullPageRegion(cv, page, id, ErrorText(err), ErrorConfidence)>>]

\* ------------------------------------------------------ extractPdfText
\* mutant of ExtractPdfTextCatch: the catch block returns an error region
ExtractPdfTextCatchErrorRegion(err) ==
    [raised |-> FALSE,
     value |-> <<FullPageRegion(<<0, 0>>, 0, 0, ErrorText(err), ErrorConfidence)>>]

\* mutant of ExtractPdfTextCatch: the error is thrown on to the caller
ExtractPdfTextRethrow(err) == [raised |-> TRUE, value |-> <<>>]

\* extractPdfText, the catch block: "return []"
ExtractPdfTextCatch(err) == [raised |-> FALSE, value |-> <<>>]

\* mutant of UsesNativeText: a single native region is not enough
UsesNativeTextMany(regions) == Len(regions) > 1

\* smartTextExtraction: pdfRegions.length > 0
UsesNativeText(regions) == Len(regions) > 0

\* ------------------------------------------- smartTextExtraction, one call
Pages == 0..MaxPage

\* nothing was called yet
NoOutcome ==
    [source |-> "pending", preprocess |-> "none", recognize |-> "none",
     error |-> <<>>]

OrchInit ==
    /\ pc = "arrayBuffer"
    /\ pageIndex \in Pages
    /\ items = Undef
    /\ pdfRegions = <<>>
    /\ ocrFn = "none"
    /\ canvas = <<0, 0>>
    /\ processed = <<0, 0>>
    /\ ocrCalls = 0
    /\ recognizeCalls = 0
    /\ result = <<>>
    /\ raised = FALSE
    /\ outcome = NoOutcome
    /\ nextId = 0

\* the state of a variable group that is not running
OrchIdle ==
    /\ pc = "idle"
    /\ pageIndex = 0
    /\ items = Undef
    /\ pdfRegions = <<>>
    /\ ocrFn = "none"
    /\ canvas = <<0, 0>>
    /\ processed = <<0, 0>>
    /\ ocrCalls = 0
    /\ recognizeCalls = 0
    /\ result = <<>>
    /\ raised = FALSE
    /\ outcome = NoOutcome
    /\ nextId = 0

GroupIdle ==
    /\ gpc = "idle"
    /\ gitems = <<>>
    /\ gpage = 0
    /\ gsorted = <<>>
    /\ gregions = <<>>

EnhIdle ==
    /\ epc = "idle"
    /\ esrc = <<0, 0>>
    /\ eopts = NoOptions
    /\ evia = "none"
    /\ eeff = EnhanceDefaults(NoOptions)
    /\ eout = <<0, 0>>
    /\ estages = <<>>
    /\ ethrew = FALSE

ScaleIdle ==
    /\ spc = "idle"
    /\ sizeA = <<0, 0>>
    /\ sizeB = <<0, 0>>
    /\ scaleA = 0
    /\ scaleB = 0

\* no call of getOptimalConfig is made: the module-level profiles exist
CfgIdle ==
    /\ cfresh = <<>>
    /\ ccalls = <<>>

LayoutIdle ==
    /\ lpc = "idle"
    /\ lcanvas = <<0, 0>>
    /\ lregions = <<>>

\* no PdfViewer is mounted
ViewIdle ==
    /\ vnumPages = 0
    /\ vpageIndex = 0
    /\ vrunning = FALSE
    /\ vbatch = FALSE
    /\ vprogress = <<0, 0>>
    /\ vops = <<>>
    /\ vstarted = 0
    /\ vids = 0
    /\ vregions = <<>>
    /\ vlast = Undef
    /\ bpc = "idle"
    /\ bi = 0
    /\ bcalled = <<>>
    /\ bfailed = <<>>
    /\ baborted = FALSE

FullIdle ==
    /\ fpc = "idle"
    /\ fcanvas = <<0, 0>>
    /\ feff = EnhanceDefaults(NoOptions)
    /\ fstages = <<>>
    /\ fprocessed = <<0, 0>>
    /\ fsel = Undef
    /\ fresult = <<>>

BlurIdle ==
    /\ blurPc = "idle"
    /\ original = <<>>
    /\ data = <<>>

RegionIdle ==
    /\ rpc = "idle"
    /\ rmodule = "none"
    /\ rpage = 0
    /\ rregions = <<>>
    /\ ri = 0
    /\ rresults = <<>>
    /\ rinvoked = {}
    /\ rfailed = <<>>

\* the module is not loaded
QAIdle ==
    /\ qaPipePromise = 0
    /\ qpipes = <<>>
    /\ qpc = <<>>
    /\ qret = <<>>
    /\ qasks = <<>>

\* no such PdfViewer is mounted
SharedIdle ==
    /\ sPageIndex = 0
    /\ sCanvas = [page |-> 0, complete |-> FALSE]
    /\ sRenders = <<>>
    /\ sRunning = FALSE
    /\ sOp = Undef
    /\ sExtracted = Undef
    /\ sClicks = 0

\* the Home page is not shown
HomeIdle ==
    /\ hFile = Undef
    /\ hPageIndex = 0
    /\ extractedText = <<>>
    /\ hUpdates = <<>>
    /\ hOps = {}
    /\ hMount = 0
    /\ hLog = <<>>
    /\ hEvents = 0

\* await file.arrayBuffer()
ReadFile ==
    /\ pc = "arrayBuffer"
    /\ pc' = "getDocument"
    /\ UNCHANGED <<pageIndex, items, pdfRegions, ocrFn, canvas, processed,
                   ocrCalls, recognizeCalls, result, raised, outcome, nextId>>
    /\ UNCHANGED othersOfOrch

\* await pdfjsLib.getDocument({ data }).promise
GetDocument ==
    /\ pc = "getDocument"
    /\ pc' = "getPage"
    /\ UNCHANGED <<pageIndex, items, pdfRegions, ocrFn, canvas, processed,
                   ocrCalls, recognizeCalls, result, raised, outcome, nextId>>
    /\ UNCHANGED othersOfOrch

\* await doc.getPage(pageIndex + 1)
GetPage ==
    /\ pc = "getPage"
    /\ pc' = "getTextContent"
    /\ UNCHANGED <<pageIndex, items, pdfRegions, ocrFn, canvas, processed,
                   ocrCalls, recognizeCalls, result, raised, outcome, nextId>>
    /\ UNCHANGED othersOfOrch

\* await page.getTextContent() resolves, and extractPdfText runs to its
\* return statement
GetTextContent ==
    /\ pc = "getTextContent"
    /\ \E its \in {Undef} \cup {Some(l) : l \in ColumnLists} :
          /\ items' = its
          /\ pdfRegions' = GroupItems(its, pageIndex, nextId)
    /\ nextId' = nextId + Len(pdfRegions')
    /\ outcome' = [outcome EXCEPT !.source = "returned"]
    /\ pc' = "branch"
    /\ UNCHANGED <<pageIndex, ocrFn, canvas, processed, ocrCalls,
                   recognizeCalls, result, raised>>
    /\ UNCHANGED othersOfOrch

\* one of the awaited calls of extractPdfText rejects: the catch block runs
SourceFails ==
    /\ pc \in {"arrayBuffer", "getDocument", "getPage", "getTextContent"}
    /\ \E err \in ErrDetails :
          LET o == ExtractPdfTextCatch(err)
          IN  /\ raised' = o.raised
              /\ pdfRegions' = o.value
              /\ outcome' = [outcome EXCEPT !.source = "threw", !.error = err]
              /\ pc' = IF o.raised THEN "done" ELSE "branch"
    /\ UNCHANGED <<pageIndex, items, ocrFn, canvas, processed, ocrCalls,
                   recognizeCalls, result, nextId>>
    /\ UNCHANGED othersOfOrch

\* if (pdfRegions.length > 0) return pdfRegions
ReturnNative ==
    /\ pc = "branch"
    /\ UsesNativeText(pdfRegions)
    /\ result' = pdfRegions
    /\ pc' = "done"
    /\ UNCHANGED <<pageIndex, items, pdfRegions, ocrFn, canvas, processed,
                   ocrCalls, recognizeCalls, raised, outcome, nextId>>
    /\ UNCHANGED othersOfOrch

\* else: ocrFullPageFn(canvas, pageIndex) is called and runs up to its
\* await of Tesseract.recognize; preprocessing that throws lands in the
\* catch block of ocrFullPage
CallOcrFullPage ==
    /\ pc = "branch"
    /\ ~UsesNativeText(pdfRegions)
    /\ ocrCalls' = ocrCalls + 1
    /\ \E fn \in OcrFullPageFns, cv \in CanvasSizes :
          /\ ocrFn' = fn
          /\ canvas' = cv
          /\ \/ /\ processed' = ProcessedSize(fn, cv)
                /\ ~GetImageDataThrows(processed')
                /\ recognizeCalls' = recognizeCalls + 1
                /\ outcome' = [outcome EXCEPT !.preprocess = "returned"]
                /\ pc' = "recognize"
                /\ UNCHANGED <<result, raised, nextId>>
             \/ /\ \E err \in ErrDetails :
                      LET o == OcrFullPageCatch(cv, pageIndex, nextId, err)
                      IN  /\ result' = o.value
                          /\ raised' = o.raised
                          /\ outcome' = [outcome EXCEPT !.preprocess = "threw",
                                                        !.error = err]
                /\ nextId' = nextId + 1
                /\ pc' = "done"
                /\ UNCHANGED <<processed, recognizeCalls>>
    /\ UNCHANGED <<pageIndex, items, pdfRegions>>
    /\ UNCHANGED othersOfOrch

\* await Tesseract.recognize(...) resolves
RecognizeReturns ==
    /\ pc = "recognize"
    /\ \E res \in RecogResults :
          LET o == OcrFullPageReturn(canvas, pageIndex, nextId, res)
          IN  /\ result' = o.value
              /\ raised' = o.raised
              /\ outcome' = [outcome EXCEPT !.recognize = "returned"]
    /\ nextId' = nextId + 1
    /\ pc' = "done"
    /\ UNCHANGED <<pageIndex, items, pdfRegions, ocrFn, canvas, processed,
                   ocrCalls, recognizeCalls>>
    /\ UNCHANGED othersOfOrch

\* await Tesseract.recognize(...) rejects
RecognizeThrows ==
    /\ pc = "recognize"
    /\ \E err \in ErrDetails :
          LET o == OcrFullPageCatch(canvas, pageIndex, nextId, err)
          IN  /\ result' = o.value
              /\ raised' = o.raised
              /\ outcome' = [outcome EXCEPT !.recognize = "threw", !.error = err]
    /\ nextId' = nextId + 1
    /\ pc' = "done"
    /\ UNCHANGED <<pageIndex, items, pdfRegions, ocrFn, canvas, processed,
                   ocrCalls, recognizeCalls>>
    /\ UNCHANGED othersOfOrch

Init ==
    OrchInit /\ GroupIdle /\ EnhIdle /\ ScaleIdle /\ CfgIdle /\ ViewIdle
    /\ LayoutIdle /\ FullIdle /\ BlurIdle /\ RegionIdle /\ QAIdle
    /\ SharedIdle /\ HomeIdle

Next ==
    \/ ReadFile
    \/ GetDocument
    \/ GetPage
    \/ GetTextContent
    \/ SourceFails
    \/ ReturnNative
    \/ CallOcrFullPage
    \/ RecognizeReturns
    \/ RecognizeThrows

Spec == Init /\ [][Next]_vars

\* ------------------------------------ the grouper applied to one item list
GroupInit ==
    /\ gpc = "call"
    /\ gitems \in ItemLists
    /\ gpage \in {0, MaxPage}
    /\ gsorted = <<>>
    /\ gregions = <<>>

\* extractPdfText from the resolved getTextContent to "return regions"
GroupApply ==
    /\ gpc = "call"
    /\ \E sorted \in SortOutcomes(gitems) :
          /\ gsorted' = sorted
          /\ gregions' = GroupSorted(gitems, sorted, gpage, 0)
    /\ gpc' = "done"
    /\ UNCHANGED <<gitems, gpage>>
    /\ UNCHANGED othersOfGroup

InitGrouper ==
    OrchIdle /\ GroupInit /\ EnhIdle /\ ScaleIdle /\ CfgIdle /\ ViewIdle
    /\ LayoutIdle /\ FullIdle /\ BlurIdle /\ RegionIdle /\ QAIdle
    /\ SharedIdle /\ HomeIdle
NextGrouper == GroupApply
SpecGrouper == InitGrouper /\ [][NextGrouper]_vars

\* --------------------- the grouper applied to fragments of nearby lines
\* fragments whose Y values lie 4 units apart, some of them blank
ChainFragments ==
    [str : {<<"a">>, <<" ">>}, x : {0, 10, 20}, y : {0, 4, 8},
     width : {40}, height : {24}]
ChainLists == UNION {[1..n -> ChainFragments] : n \in 0..MaxChain}

ChainInit ==
    /\ gpc = "call"
    /\ gitems \in ChainLists
    /\ gpage = 0
    /\ gsorted = <<>>
    /\ gregions = <<>>

InitReading ==
    OrchIdle /\ ChainInit /\ EnhIdle /\ ScaleIdle /\ CfgIdle /\ ViewIdle
    /\ LayoutIdle /\ FullIdle /\ BlurIdle /\ RegionIdle /\ QAIdle
    /\ SharedIdle /\ HomeIdle
SpecReading == InitReading /\ [][NextGrouper]_vars

\* ------------------------------------------- enhanceImageForOCR, one call
SmallDims == 1..MaxSmallDim
SrcSizes == (SmallDims \X SmallDims) \cup CanvasSizes
ScaleOptions == {Undef, Some(5), Some(15), Some(20), Some(40)}
MaxDimOptions == {Undef, Some(2), Some(FullPageMaxDim)}
\* a filter toggle is left out (the default, on, applies) or switched off
ToggleOptions == {Undef, Some(FALSE)}

EnhanceOptionSets ==
    {[NoOptions EXCEPT !.scale = sc, !.maxWidth = mw, !.maxHeight = mh,
                       !.denoise = t[1], !.sharpen = t[2],
                       !.enhanceContrast = t[3], !.adaptiveThreshold = t[4]] :
        sc \in ScaleOptions, mw \in MaxDimOptions, mh \in MaxDimOptions,
        t \in ToggleOptions \X ToggleOptions \X ToggleOptions \X ToggleOptions}

EnhInit ==
    /\ epc = "call"
    /\ esrc \in SrcSizes
    /\ eopts \in EnhanceOptionSets
    /\ evia \in {"direct", "preprocess"}
    /\ eeff = EnhanceDefaults(NoOptions)
    /\ eout = <<0, 0>>
    /\ estages = <<>>
    /\ ethrew = FALSE

\* the call: preprocessCanvas merges its defaults first when the call goes
\* through it; then the destructuring, the output canvas and drawImage
EnhResample ==
    /\ epc = "call"
    /\ eeff' = EnhanceDefaults(IF evia = "preprocess"
                               THEN PreprocessOptions(esrc, eopts) ELSE eopts)
    /\ eout' = OutputSize(esrc, eeff')
    /\ estages' = Append(estages, "resample")
    /\ epc' = "getImageData"
    /\ UNCHANGED <<esrc, eopts, evia, ethrew>>
    /\ UNCHANGED othersOfEnh

\* const imageData = ctx.getImageData(0, 0, scaledWidth, scaledHeight)
EnhGetImageData ==
    /\ epc = "getImageData"
    /\ ethrew' = GetImageDataThrows(eout)
    /\ epc' = IF ethrew' THEN "done" ELSE "denoise"
    /\ UNCHANGED <<esrc, eopts, evia, eeff, eout, estages>>
    /\ UNCHANGED othersOfEnh

\* mutant of EnhFilter: the filter runs whether or not its toggle is set
EnhFilterAlways(at, on, stage, then) ==
    /\ epc = at
    /\ estages' = Append(estages, stage)
    /\ epc' = then
    /\ UNCHANGED <<esrc, eopts, evia, eeff, eout, ethrew>>
    /\ UNCHANGED othersOfEnh

\* one "if (toggle) applyFilter(...)" statement
EnhFilter(at, on, stage, then) ==
    /\ epc = at
    /\ estages' = IF on THEN Append(estages, stage) ELSE estages
    /\ epc' = then
    /\ UNCHANGED <<esrc, eopts, evia, eeff, eout, ethrew>>
    /\ UNCHANGED othersOfEnh

EnhDenoise == EnhFilter("denoise", eeff.denoise, "denoise", "sharpen")
EnhSharpen == EnhFilter("sharpen", eeff.sharpen, "sharpen", "contrast")
EnhContrast == EnhFilter("contrast", eeff.enhanceContrast, "contrast", "threshold")
EnhThreshold ==
    EnhFilter("threshold", eeff.adaptiveThreshold, "threshold", "putImageData")

\* ctx.putImageData(imageData, 0, 0); return outputCanvas
EnhReturn ==
    /\ epc = "putImageData"
    /\ epc' = "done"
    /\ UNCHANGED <<esrc, eopts, evia, eeff, eout, estages, ethrew>>
    /\ UNCHANGED othersOfEnh

InitEnhance ==
    OrchIdle /\ GroupIdle /\ EnhInit /\ ScaleIdle /\ CfgIdle /\ ViewIdle
    /\ LayoutIdle /\ FullIdle /\ BlurIdle /\ RegionIdle /\ QAIdle
    /\ SharedIdle /\ HomeIdle
NextEnhance ==
    \/ EnhResample
    \/ EnhGetImageData
    \/ EnhDenoise
    \/ EnhSharpen
    \/ EnhContrast
    \/ EnhThreshold
    \/ EnhReturn
SpecEnhance == InitEnhance /\ [][NextEnhance]_vars

\* -------------------------------------- getOptimalScale, two calls compared
\* widths and heights of the canvases getOptimalScale is called with
ScaleDims == {1, 7, 300, 600, 640, 700, 1000, 1500, 2000, 2550, 3000}
ScaleSizes == ScaleDims \X ScaleDims

ScaleInit ==
    /\ spc = "call"
    /\ sizeA \in ScaleSizes
    /\ sizeB \in ScaleSizes
    /\ scaleA = 0
    /\ scaleB = 0

\* getOptimalScale(widthA, heightA) and getOptimalScale(widthB, heightB)
ScaleApply ==
    /\ spc = "call"
    /\ scaleA' = GetOptimalScale10(sizeA[1], sizeA[2])
    /\ scaleB' = GetOptimalScale10(sizeB[1], sizeB[2])
    /\ spc' = "done"
    /\ UNCHANGED <<sizeA, sizeB>>
    /\ UNCHANGED othersOfScale

InitScale ==
    OrchIdle /\ GroupIdle /\ EnhIdle /\ ScaleInit /\ CfgIdle /\ ViewIdle
    /\ LayoutIdle /\ FullIdle /\ BlurIdle /\ RegionIdle /\ QAIdle
    /\ SharedIdle /\ HomeIdle
NextScale == ScaleApply
SpecScale == InitScale /\ [][NextScale]_vars

\* ------------------------------------ getOptimalConfig and its callers
\* image sizes below 500,000 pixels, at 500,000, at 2,000,000 and above
ConfigSizes == {<<500, 500>>, <<1000, 500>>, <<2000, 1000>>, <<2000, 1500>>}
TextSizes == {"small", "medium", "large"}
\* the four content classes of the signature and one that is none of them
RecognizedTextTypes == {"paragraph", "single_line", "multi_column", "handwriting"}
TextTypes == RecognizedTextTypes \cup {"table"}
ConfigArgs ==
    [width : {sz[1] : sz \in ConfigSizes}, height : {sz[2] : sz \in ConfigSizes},
     textSize : {Undef} \cup {Some(t) : t \in TextSizes},
     textType : {Undef} \cup {Some(t) : t \in TextTypes}]
CfgInit == CfgIdle

\* one call of getOptimalConfig, from its entry to its return statement;
\* two calls are made, so that a call can be compared with a later one
CallGetOptimalConfig ==
    /\ Len(ccalls) < 2
    /\ \E args \in ConfigArgs :
          /\ <<args.width, args.height>> \in ConfigSizes
          /\ LET r == GetOptimalConfig(Profiles, args)
                 ref == IF r.created THEN CreatedRef(Len(cfresh) + 1)
                        ELSE ProfileRef(r.base)
             IN  /\ cfresh' = IF r.created THEN Append(cfresh, r.value) ELSE cfresh
                 /\ ccalls' = Append(ccalls, [args |-> args, base |-> r.base,
                                              ref |-> ref, value |-> r.value,
                                              applied |-> Undef])
    /\ UNCHANGED othersOfCfg

\* applyConfigWithLogging(config, context): logs four knobs, returns config
ApplyConfigWithLogging ==
    /\ \E i \in 1..Len(ccalls) :
          /\ ccalls[i].applied = Undef
          /\ ccalls' = [ccalls EXCEPT ![i].applied = Some(ccalls[i].ref)]
    /\ UNCHANGED cfresh
    /\ UNCHANGED othersOfCfg

InitConfig ==
    OrchIdle /\ GroupIdle /\ EnhIdle /\ ScaleIdle /\ CfgInit /\ ViewIdle
    /\ LayoutIdle /\ FullIdle /\ BlurIdle /\ RegionIdle /\ QAIdle
    /\ SharedIdle /\ HomeIdle
NextConfig ==
    \/ CallGetOptimalConfig
    \/ ApplyConfigWithLogging
SpecConfig == InitConfig /\ [][NextConfig]_vars

\* ------------------------------------------------- detectLayout, one call
\* canvas heights: every multiple of 3 up to 390, and three page-sized ones
LayoutHeights == {3 * k : k \in 1..130} \cup {600, 1200, 3000}
LayoutWidths == {60, 300, 1500}

LayoutInit ==
    /\ lpc = "call"
    /\ lcanvas \in LayoutWidths \X LayoutHeights
    /\ lregions = <<>>

\* await detectLayout(model, canvas)
LayoutApply ==
    /\ lpc = "call"
    /\ lregions' = DetectLayout(lcanvas, 0)
    /\ lpc' = "done"
    /\ UNCHANGED lcanvas
    /\ UNCHANGED othersOfLayout

InitLayout ==
    OrchIdle /\ GroupIdle /\ EnhIdle /\ ScaleIdle /\ CfgIdle /\ ViewIdle
    /\ LayoutInit /\ FullIdle /\ BlurIdle /\ RegionIdle /\ QAIdle
    /\ SharedIdle /\ HomeIdle
NextLayout == LayoutApply
SpecLayout == InitLayout /\ [][NextLayout]_vars

\* ------------------------------------- PdfViewer with a loaded document
\* size of the pages in PDF points
PagePoints == <<375, 300>>
\* page.getViewport({ scale }): viewport.width, viewport.height
Viewport(points, scale) == <<points[1] * scale, points[2] * scale>>
\* the canvas PanZoomCanvas hands to the handlers; DisplayScale is
\* Math.min(4, Math.max(2.5, 300 / 72))
DisplayCanvas == Viewport(PagePoints, DisplayScale)
\* the canvas the batch handler renders each page to
BatchCanvas == Viewport(PagePoints, BatchScale)

\* what Tesseract.recognize does in one call of ocrFullPage
ViewerOutcomes ==
    {[threw |-> FALSE, res |-> r, err |-> <<>>] :
        r \in {q \in RecogResults : q.confidence = 95 /\ q.text = <<"o", "k">>}}
    \cup {[threw |-> TRUE, res |-> [text |-> <<>>, confidence |-> 0], err |-> e] :
            e \in {d \in ErrDetails : d[2] = "1"}}
\* textContent.items of the page Smart Extract works on
ViewerItemLists ==
    {<<>>, <<[str |-> <<"a">>, x |-> 0, y |-> 100, width |-> 60, height |-> 24]>>}

\* the value ocrFullPage resolves with, whatever Tesseract.recognize does
OcrFullPageOutcome(cv, page, id, o) ==
    IF o.threw THEN OcrFullPageCatch(cv, page, id, o.err).value
    ELSE OcrFullPageReturn(cv, page, id, o.res).value

\* the value smartTextExtraction resolves with
SmartExtractionOutcome(its, cv, page, id, o) ==
    LET native == GroupItems(Some(its), page, id)
    IN  IF UsesNativeText(native) THEN native
        ELSE OcrFullPageOutcome(cv, page, id, o)

\* raw.map(r => ({ ...r, page: pageIndex }))
Stamp(raw, page) == [i \in 1..Len(raw) |-> [raw[i] EXCEPT !.page = page]]

\* mutant of CurrentPageOcrEnabled: disabled={running}
CurrentPageOcrEnabledWhileBatch(running, batch) == ~running

\* the buttons of the OCR controls are enabled unless their disabled
\* attribute holds; the document and the detector are loaded
CurrentPageOcrEnabled(running, batch) == ~(running \/ batch)
SmartExtractEnabled(running, batch) == ~(running \/ batch)
ManualRegionsEnabled(running, batch) == ~(running \/ batch)
OcrAllPagesEnabled(running, batch) == ~(running \/ batch)

IsNotBatch(op) == op.kind # "batch"
\* s without its k-th element
RemoveAt(s, k) == SubSeq(s, 1, k - 1) \o SubSeq(s, k + 1, Len(s))

ViewInit ==
    /\ vnumPages \in 1..(MaxPage + 1)
    /\ vpageIndex = 0
    /\ vrunning = FALSE
    /\ vbatch = FALSE
    /\ vprogress = <<0, 0>>
    /\ vops = <<>>
    /\ vstarted = 0
    /\ vids = 0
    /\ vregions = <<>>
    /\ vlast = Undef
    /\ bpc = "idle"
    /\ bi = 0
    /\ bcalled = [i \in 1..vnumPages |-> Undef]
    /\ bfailed = [i \in 1..vnumPages |-> "none"]
    /\ baborted = FALSE

\* const prev = () => onPageChange(Math.max(0, pageIndex - 1))
Prev ==
    /\ vpageIndex # 0
    /\ vpageIndex' = Max(0, vpageIndex - 1)
    /\ UNCHANGED <<vnumPages, vrunning, vbatch, vprogress, vops, vstarted, vids,
                   vregions, vlast, bpc, bi, bcalled, bfailed, baborted>>
    /\ UNCHANGED othersOfView

\* const next = () => onPageChange(Math.min((numPages || 1) - 1, pageIndex + 1))
NextPage ==
    /\ ~(vpageIndex >= vnumPages - 1)
    /\ vpageIndex' = Min(vnumPages - 1, vpageIndex + 1)
    /\ UNCHANGED <<vnumPages, vrunning, vbatch, vprogress, vops, vstarted, vids,
                   vregions, vlast, bpc, bi, bcalled, bfailed, baborted>>
    /\ UNCHANGED othersOfView

\* a click handler of a single-page operation up to its first await:
\* setRunning(true), and the awaited call is started with the pageIndex of
\* the render the handler was created in
StartOperation(kind) ==
    /\ vstarted < MaxClicks
    /\ vrunning' = TRUE
    /\ vops' = Append(vops, [kind |-> kind, page |-> vpageIndex])
    /\ vstarted' = vstarted + 1
    /\ UNCHANGED <<vnumPages, vpageIndex, vbatch, vprogress, vids, vregions,
                   vlast, bpc, bi, bcalled, bfailed, baborted>>
    /\ UNCHANGED othersOfView

ClickCurrentPageOCR ==
    CurrentPageOcrEnabled(vrunning, vbatch) /\ StartOperation("fullPage")
ClickSmartExtract ==
    SmartExtractEnabled(vrunning, vbatch) /\ StartOperation("smart")
ClickManualRegions ==
    ManualRegionsEnabled(vrunning, vbatch) /\ StartOperation("detect")

\* a single-page operation settles: its results are handed to the
\* callbacks, then "finally { setRunning(false) }"
Settle(k, regions, extracted, ids) ==
    /\ vregions' = regions
    /\ vlast' = IF extracted
                THEN Some([page |-> vops[k].page, regions |-> regions])
                ELSE vlast
    /\ vids' = vids + ids
    /\ vrunning' = FALSE
    /\ vops' = RemoveAt(vops, k)
    /\ UNCHANGED <<vnumPages, vpageIndex, vbatch, vprogress, vstarted, bpc, bi,
                   bcalled, bfailed, baborted>>
    /\ UNCHANGED othersOfView

\* handleFullPageOCR after "await ocrFullPage(canvas, pageIndex)"
FullPageOcrSettles ==
    \E k \in 1..Len(vops), o \in ViewerOutcomes :
        /\ vops[k].kind = "fullPage"
        /\ Settle(k, OcrFullPageOutcome(DisplayCanvas, vops[k].page, vids, o),
                  TRUE, 1)

\* handleSmartExtract after "await smartTextExtraction(...)"
SmartExtractSettles ==
    \E k \in 1..Len(vops), its \in ViewerItemLists, o \in ViewerOutcomes :
        /\ vops[k].kind = "smart"
        /\ Settle(k, SmartExtractionOutcome(its, DisplayCanvas, vops[k].page,
                                            vids, o),
                  TRUE, 1)

\* handleDetect after "await detectLayout(detector, canvas)"
DetectSettles ==
    \E k \in 1..Len(vops) :
        /\ vops[k].kind = "detect"
        /\ Settle(k, Stamp(DetectLayout(DisplayCanvas, vids), vops[k].page),
                  FALSE, 3)

\* handleBatchProcessAllPages up to its first await: "await pdf.getPage(1)"
ClickOcrAllPages ==
    /\ OcrAllPagesEnabled(vrunning, vbatch)
    /\ vstarted < MaxClicks
    /\ vbatch' = TRUE
    /\ vprogress' = <<1, vnumPages>>
    /\ vops' = Append(vops, [kind |-> "batch", page |-> 0])
    /\ vstarted' = vstarted + 1
    /\ bpc' = "getPage"
    /\ bi' = 0
    /\ bcalled' = [i \in 1..vnumPages |-> Undef]
    /\ bfailed' = [i \in 1..vnumPages |-> "none"]
    /\ baborted' = FALSE
    /\ UNCHANGED <<vnumPages, vpageIndex, vrunning, vids, vregions, vlast>>
    /\ UNCHANGED othersOfView

\* "await pdf.getPage(i + 1)" resolves; page.render is started
BatchGetPage ==
    /\ bpc = "getPage"
    /\ bpc' = "render"
    /\ UNCHANGED <<vnumPages, vpageIndex, vrunning, vbatch, vprogress, vops,
                   vstarted, vids, vregions, vlast, bi, bcalled, bfailed,
                   baborted>>
    /\ UNCHANGED othersOfView

\* "await page.render(...).promise" resolves; ocrFullPage(canvas, i) runs
\* up to its await of Tesseract.recognize
BatchRender ==
    /\ bpc = "render"
    /\ bpc' = "recognize"
    /\ UNCHANGED <<vnumPages, vpageIndex, vrunning, vbatch, vprogress, vops,
                   vstarted, vids, vregions, vlast, bi, bcalled, bfailed,
                   baborted>>
    /\ UNCHANGED othersOfView

\* "finally { setBatchProcessing(false); setBatchProgress(...) }"
BatchFinally ==
    /\ vbatch' = FALSE
    /\ vprogress' = <<0, 0>>
    /\ vops' = SelectSeq(vops, IsNotBatch)
    /\ bpc' = "done"

\* pdf.getPage or page.render rejects: nothing in the loop catches it, the
\* finally block runs and the promise of the handler rejects
BatchPageFails ==
    /\ bpc \in {"getPage", "render"}
    /\ bfailed' = [bfailed EXCEPT ![bi + 1] = bpc]
    /\ baborted' = TRUE
    /\ BatchFinally
    /\ UNCHANGED <<vnumPages, vpageIndex, vrunning, vstarted, vids, vregions,
                   vlast, bi, bcalled>>
    /\ UNCHANGED othersOfView

\* "await ocrFullPage(canvas, i)" resolves, with the recognized text or
\* with the error region; onExtracted(i, res); the delay timer is started
BatchRecognize ==
    /\ bpc = "recognize"
    /\ \E o \in ViewerOutcomes :
          LET res == OcrFullPageOutcome(BatchCanvas, bi, vids, o)
          IN  /\ bcalled' = [bcalled EXCEPT ![bi + 1] = Some(res)]
              /\ bfailed' = [bfailed EXCEPT
                                ![bi + 1] = IF o.threw THEN "recognize" ELSE "none"]
              /\ vlast' = Some([page |-> bi, regions |-> res])
    /\ vids' = vids + 1
    /\ bpc' = "delay"
    /\ UNCHANGED <<vnumPages, vpageIndex, vrunning, vbatch, vprogress, vops,
                   vstarted, vregions, bi, baborted>>
    /\ UNCHANGED othersOfView

\* the 100 ms timer fires: i++, and the next page is fetched
BatchNextPage ==
    /\ bpc = "delay"
    /\ bi + 1 < vnumPages
    /\ bi' = bi + 1
    /\ vprogress' = <<bi + 2, vnumPages>>
    /\ bpc' = "getPage"
    /\ UNCHANGED <<vnumPages, vpageIndex, vrunning, vbatch, vops, vstarted,
                   vids, vregions, vlast, bcalled, bfailed, baborted>>
    /\ UNCHANGED othersOfView

\* the 100 ms timer fires after the last page: the loop and the handler end
BatchEnds ==
    /\ bpc = "delay"
    /\ ~(bi + 1 < vnumPages)
    /\ bi' = bi + 1
    /\ BatchFinally
    /\ UNCHANGED <<vnumPages, vpageIndex, vrunning, vstarted, vids, vregions,
                   vlast, bcalled, bfailed, baborted>>
    /\ UNCHANGED othersOfView

InitViewer ==
    OrchIdle /\ GroupIdle /\ EnhIdle /\ ScaleIdle /\ CfgIdle /\ ViewInit
    /\ LayoutIdle /\ FullIdle /\ BlurIdle /\ RegionIdle /\ QAIdle
    /\ SharedIdle /\ HomeIdle
NextViewer ==
    \/ Prev
    \/ NextPage
    \/ ClickCurrentPageOCR
    \/ ClickSmartExtract
    \/ ClickManualRegions
    \/ FullPageOcrSettles
    \/ SmartExtractSettles
    \/ DetectSettles
    \/ ClickOcrAllPages
    \/ BatchGetPage
    \/ BatchRender
    \/ BatchPageFails
    \/ BatchRecognize
    \/ BatchNextPage
    \/ BatchEnds
SpecViewer == InitViewer /\ [][NextViewer]_vars

\* ----------------------------- ocrFullPage of the enhanced module, one call
FullPageDims == {1, 300, 500, 999, 1000, 1001, 1500, 2000, 3000}
FullPageCanvases == FullPageDims \X FullPageDims

FullInit ==
    /\ fpc = "call"
    /\ fcanvas \in FullPageCanvases
    /\ feff = EnhanceDefaults(NoOptions)
    /\ fstages = <<>>
    /\ fprocessed = <<0, 0>>
    /\ fsel = Undef
    /\ fresult = <<>>

\* const processedCanvas = preprocessCanvas(canvas, { ... })
FullPagePreprocess ==
    /\ fpc = "call"
    /\ feff' = EnhanceDefaults(PreprocessOptions(fcanvas, FullPageOptions(fcanvas)))
    /\ fprocessed' = OutputSize(fcanvas, feff')
    /\ fstages' = <<"resample">> \o EnabledStages(feff')
    /\ fpc' = "select"
    /\ UNCHANGED <<fcanvas, fsel, fresult>>
    /\ UNCHANGED othersOfFull

\* applyConfigWithLogging(getOptimalConfig(processedCanvas.width,
\* processedCanvas.height, 'medium', 'paragraph'), 'full-page OCR')
FullPageSelect ==
    /\ fpc = "select"
    /\ fsel' = Some([width |-> fprocessed[1], height |-> fprocessed[2],
                     textSize |-> Some("medium"), textType |-> Some("paragraph")])
    /\ fpc' = "recognize"
    /\ UNCHANGED <<fcanvas, feff, fstages, fprocessed, fresult>>
    /\ UNCHANGED othersOfFull

\* await Tesseract.recognize(processedCanvas, "eng", { ...ocrConfig })
\* resolves, or rejects and the catch block runs
FullPageRecognize ==
    /\ fpc = "recognize"
    /\ \/ \E res \in RecogResults :
             fresult' = OcrFullPageReturn(fcanvas, 0, 0, res).value
       \/ \E err \in ErrDetails :
             fresult' = OcrFullPageCatch(fcanvas, 0, 0, err).value
    /\ fpc' = "done"
    /\ UNCHANGED <<fcanvas, feff, fstages, fprocessed, fsel>>
    /\ UNCHANGED othersOfFull

InitFullPage ==
    OrchIdle /\ GroupIdle /\ EnhIdle /\ ScaleIdle /\ CfgIdle /\ ViewIdle
    /\ LayoutIdle /\ FullInit /\ BlurIdle /\ RegionIdle /\ QAIdle
    /\ SharedIdle /\ HomeIdle
NextFullPage ==
    \/ FullPagePreprocess
    \/ FullPageSelect
    \/ FullPageRecognize
SpecFullPage == InitFullPage /\ [][NextFullPage]_vars

\* ------------------------------------------- applyGaussianBlur, one call
PixelValues == {0, 255}
Channels ==
    UNION {[1..h -> [1..w -> PixelValues]] : w \in 1..MaxImageDim, h \in 1..MaxImageDim}

BlurInit ==
    /\ blurPc = "call"
    /\ original \in Channels
    /\ data = original

BlurApply ==
    /\ blurPc = "call"
    /\ data' = ApplyGaussianBlur(original)
    /\ blurPc' = "done"
    /\ UNCHANGED original
    /\ UNCHANGED othersOfBlur

InitBlur ==
    OrchIdle /\ GroupIdle /\ EnhIdle /\ ScaleIdle /\ CfgIdle /\ ViewIdle
    /\ LayoutIdle /\ FullIdle /\ BlurInit /\ RegionIdle /\ QAIdle
    /\ SharedIdle /\ HomeIdle
NextBlur == BlurApply
SpecBlur == InitBlur /\ [][NextBlur]_vars

\* ------------------------------------------------- ocrRegions, one call
\* the three modules that export the guarded ocrRegions
OcrRegionsModules == {"enhanced", "improved", "debug"}

\* input regions: from detectLayout (confidence 1.0) or drawn by hand (no
\* confidence), some with a degenerate box
RegionBoxes ==
    [x : {50}, y : {50}, width : {0, 40}, height : {-1, 30}]
InputRegion(i, box, conf) ==
    [id |-> i, page |-> 0, type |-> "paragraph", bbox |-> box,
     text |-> Undef, confidence |-> conf]
InputRegionLists ==
    UNION {{[i \in 1..n |-> InputRegion(i, b[i], c[i])] :
               b \in [1..n -> RegionBoxes], c \in [1..n -> {Undef, Some(1)}]} :
           n \in 0..MaxRegions}

\* res.data of Tesseract.recognize for a region
RegionRecogResult == [text |-> <<" ", "x", " ">>, confidence |-> 62]
RegionError == <<"E", "1">>

\* if (width <= 0 || height <= 0)
IsInvalidRegion(r) == r.bbox.width <= 0 \/ r.bbox.height <= 0

\* { ...r, page, text: "" }
SkippedResult(r, page) == [r EXCEPT !.page = page, !.text = Some(<<>>)]

\* the object pushed after Tesseract.recognize resolved: ocr-debug.ts leaves
\* the confidence of r in place
RecognizedResult(module, r, page, res) ==
    IF module = "debug"
    THEN [r EXCEPT !.page = page, !.text = Some(Trim(res.text))]
    ELSE [r EXCEPT !.page = page, !.text = Some(Trim(res.text)),
                   !.confidence = Some(res.confidence)]

\* the object pushed by the catch block: ocr-debug.ts leaves the confidence
\* of r in place
FailedResult(module, r, page, err) ==
    IF module = "debug"
    THEN [r EXCEPT !.page = page, !.text = Some(ErrorText(err))]
    ELSE [r EXCEPT !.page = page, !.text = Some(ErrorText(err)),
                   !.confidence = Some(ErrorConfidence)]

RegionInit ==
    /\ rpc = "loop"
    /\ rmodule \in OcrRegionsModules
    /\ rpage \in {0, MaxPage}
    /\ rregions \in InputRegionLists
    /\ ri = 1
    /\ rresults = <<>>
    /\ rinvoked = {}
    /\ rfailed = [i \in 1..Len(rregions) |-> Undef]

\* the loop body for an invalid region: push and continue
RegionSkipInvalid ==
    /\ rpc = "loop"
    /\ ri <= Len(rregions)
    /\ IsInvalidRegion(rregions[ri])
    /\ rresults' = Append(rresults, SkippedResult(rregions[ri], rpage))
    /\ ri' = ri + 1
    /\ UNCHANGED <<rpc, rmodule, rpage, rregions, rinvoked, rfailed>>
    /\ UNCHANGED othersOfRegion

\* the try block up to the call of Tesseract.recognize
RegionStartRecognize ==
    /\ rpc = "loop"
    /\ ri <= Len(rregions)
    /\ ~IsInvalidRegion(rregions[ri])
    /\ rinvoked' = rinvoked \cup {ri}
    /\ rpc' = "recognize"
    /\ UNCHANGED <<rmodule, rpage, rregions, ri, rresults, rfailed>>
    /\ UNCHANGED othersOfRegion

\* getImageData, putImageData or preprocessCanvas throws: the catch block
RegionPrepareThrows ==
    /\ rpc = "loop"
    /\ ri <= Len(rregions)
    /\ ~IsInvalidRegion(rregions[ri])
    /\ rresults' = Append(rresults, FailedResult(rmodule, rregions[ri], rpage, RegionError))
    /\ rfailed' = [rfailed EXCEPT ![ri] = Some(RegionError)]
    /\ ri' = ri + 1
    /\ UNCHANGED <<rpc, rmodule, rpage, rregions, rinvoked>>
    /\ UNCHANGED othersOfRegion

\* await Tesseract.recognize(...) resolves
RegionRecognizeResolves ==
    /\ rpc = "recognize"
    /\ rresults' = Append(rresults,
                          RecognizedResult(rmodule, rregions[ri], rpage, RegionRecogResult))
    /\ ri' = ri + 1
    /\ rpc' = "loop"
    /\ UNCHANGED <<rmodule, rpage, rregions, rinvoked, rfailed>>
    /\ UNCHANGED othersOfRegion

\* await Tesseract.recognize(...) rejects: the catch block
RegionRecognizeRejects ==
    /\ rpc = "recognize"
    /\ rresults' = Append(rresults, FailedResult(rmodule, rregions[ri], rpage, RegionError))
    /\ rfailed' = [rfailed EXCEPT ![ri] = Some(RegionError)]
    /\ ri' = ri + 1
    /\ rpc' = "loop"
    /\ UNCHANGED <<rmodule, rpage, rregions, rinvoked>>
    /\ UNCHANGED othersOfRegion

\* return results
RegionsReturn ==
    /\ rpc = "loop"
    /\ ri > Len(rregions)
    /\ rpc' = "done"
    /\ UNCHANGED <<rmodule, rpage, rregions, ri, rresults, rinvoked, rfailed>>
    /\ UNCHANGED othersOfRegion

InitRegions ==
    OrchIdle /\ GroupIdle /\ EnhIdle /\ ScaleIdle /\ CfgIdle /\ ViewIdle
    /\ LayoutIdle /\ FullIdle /\ BlurIdle /\ RegionInit /\ QAIdle
    /\ SharedIdle /\ HomeIdle
NextRegions ==
    \/ RegionSkipInvalid
    \/ RegionStartRecognize
    \/ RegionPrepareThrows
    \/ RegionRecognizeResolves
    \/ RegionRecognizeRejects
    \/ RegionsReturn
SpecRegions == InitRegions /\ [][NextRegions]_vars

\* ---------------------------- loadQAPipeline and answerQuestion (nlp.ts)
Callers == 1..MaxCallers

\* let qaPipePromise = null, and no call made yet
QAInit ==
    /\ qaPipePromise = 0
    /\ qpipes = <<>>
    /\ qpc = [c \in Callers |-> "idle"]
    /\ qret = [c \in Callers |-> 0]
    /\ qasks = [c \in Callers |-> 0]

\* answerQuestion calls loadQAPipeline, which runs to its first await:
\* if (!qaPipePromise) await configureTransformers(), else return qaPipePromise
QAStart(c) ==
    /\ qpc[c] = "idle"
    /\ qasks[c] < MaxAsks
    /\ qasks' = [qasks EXCEPT ![c] = @ + 1]
    /\ IF qaPipePromise = 0
       THEN /\ qpc' = [qpc EXCEPT ![c] = "configuring"]
            /\ UNCHANGED qret
       ELSE /\ qpc' = [qpc EXCEPT ![c] = "awaitPipe"]
            /\ qret' = [qret EXCEPT ![c] = qaPipePromise]
    /\ UNCHANGED <<qaPipePromise, qpipes>>
    /\ UNCHANGED othersOfQA

\* configureTransformers resolved: qaPipePromise = transformers.pipeline(...);
\* return qaPipePromise
QAConfigured(c) ==
    /\ qpc[c] = "configuring"
    /\ qpipes' = Append(qpipes, "pending")
    /\ qaPipePromise' = Len(qpipes')
    /\ qret' = [qret EXCEPT ![c] = qaPipePromise']
    /\ qpc' = [qpc EXCEPT ![c] = "awaitPipe"]
    /\ UNCHANGED qasks
    /\ UNCHANGED othersOfQA

\* configureTransformers rejected (the dynamic import failed), or returned
\* null and loadQAPipeline threw: answerQuestion rejects
QAConfigureFails(c) ==
    /\ qpc[c] = "configuring"
    /\ qpc' = [qpc EXCEPT ![c] = "idle"]
    /\ UNCHANGED <<qaPipePromise, qpipes, qret, qasks>>
    /\ UNCHANGED othersOfQA

\* a promise returned by transformers.pipeline settles
QAPipeSettles(n) ==
    /\ n \in 1..Len(qpipes)
    /\ qpipes[n] = "pending"
    /\ \E status \in {"resolved", "rejected"} :
          qpipes' = [qpipes EXCEPT ![n] = status]
    /\ UNCHANGED <<qaPipePromise, qpc, qret, qasks>>
    /\ UNCHANGED othersOfQA

\* const qa = await loadQAPipeline() resumes: qa({ question, context }) is
\* called, or answerQuestion rejects with the reason of the promise
QAPipeAwaited(c) ==
    /\ qpc[c] = "awaitPipe"
    /\ qpipes[qret[c]] # "pending"
    /\ qpc' = [qpc EXCEPT ![c] = IF qpipes[qret[c]] = "resolved"
                                  THEN "asking" ELSE "idle"]
    /\ UNCHANGED <<qaPipePromise, qpipes, qret, qasks>>
    /\ UNCHANGED othersOfQA

\* await qa(...) settles and answerQuestion returns or rejects
QAAnswered(c) ==
    /\ qpc[c] = "asking"
    /\ qpc' = [qpc EXCEPT ![c] = "idle"]
    /\ UNCHANGED <<qaPipePromise, qpipes, qret, qasks>>
    /\ UNCHANGED othersOfQA

InitQA ==
    OrchIdle /\ GroupIdle /\ EnhIdle /\ ScaleIdle /\ CfgIdle /\ ViewIdle
    /\ LayoutIdle /\ FullIdle /\ BlurIdle /\ RegionIdle /\ QAInit
    /\ SharedIdle /\ HomeIdle
NextQA ==
    \/ \E c \in Callers : QAStart(c)
    \/ \E c \in Callers : QAConfigured(c)
    \/ \E c \in Callers : QAConfigureFails(c)
    \/ \E n \in 1..Len(qpipes) : QAPipeSettles(n)
    \/ \E c \in Callers : QAPipeAwaited(c)
    \/ \E c \in Callers : QAAnswered(c)
SpecQA == InitQA /\ [][NextQA]_vars

\* ------------- PdfViewer with one shared canvas (ResultsPanel.tsx, first)
SharedNumPages == MaxPage + 1

\* the document is loaded and page 0 is rendered
SharedInit ==
    /\ sPageIndex = 0
    /\ sCanvas = [page |-> 0, complete |-> TRUE]
    /\ sRenders = <<>>
    /\ sRunning = FALSE
    /\ sOp = Undef
    /\ sExtracted = Undef
    /\ sClicks = 0

\* onPageChange(index): the new pageIndex is committed and the render effect
\* starts render() for it
SharedPageChange(index) ==
    /\ sClicks < MaxClicks
    /\ sClicks' = sClicks + 1
    /\ sPageIndex' = index
    /\ sRenders' = Append(sRenders, [page |-> index, at |-> "getPage"])
    /\ UNCHANGED <<sCanvas, sRunning, sOp, sExtracted>>
    /\ UNCHANGED othersOfShared

\* the Prev button: disabled={!pdf || pageIndex === 0}
SharedPrev ==
    /\ sPageIndex # 0
    /\ SharedPageChange(Max(0, sPageIndex - 1))

\* the Next button: disabled={!pdf || pageIndex >= numPages - 1}
SharedNext ==
    /\ sPageIndex < SharedNumPages - 1
    /\ SharedPageChange(Min(SharedNumPages - 1, sPageIndex + 1))

\* render(): await pdf.getPage resolved; canvas.width and canvas.height are
\* assigned, which clears the canvas, and page.render starts
SharedRenderStarts(k) ==
    /\ k \in 1..Len(sRenders)
    /\ sRenders[k].at = "getPage"
    /\ sCanvas' = [page |-> sRenders[k].page, complete |-> FALSE]
    /\ sRenders' = [sRenders EXCEPT ![k].at = "render"]
    /\ UNCHANGED <<sPageIndex, sRunning, sOp, sExtracted, sClicks>>
    /\ UNCHANGED othersOfShared

\* render(): await page.render(...).promise resolved
SharedRenderEnds(k) ==
    /\ k \in 1..Len(sRenders)
    /\ sRenders[k].at = "render"
    /\ sCanvas' = IF sCanvas.page = sRenders[k].page
                  THEN [sCanvas EXCEPT !.complete = TRUE] ELSE sCanvas
    /\ sRenders' = RemoveAt(sRenders, k)
    /\ UNCHANGED <<sPageIndex, sRunning, sOp, sExtracted, sClicks>>
    /\ UNCHANGED othersOfShared

\* the Smart Extract button, disabled={!pdf || running}: handleSmartExtract
\* up to its await; smartTextExtraction awaits extractPdfText
SharedClickSmartExtract ==
    /\ ~sRunning
    /\ sClicks < MaxClicks
    /\ sClicks' = sClicks + 1
    /\ sRunning' = TRUE
    /\ sOp' = Some([kind |-> "smart", page |-> sPageIndex, at |-> "source",
                    settled |-> sCanvas.complete /\ sCanvas.page = sPageIndex
                                /\ sRenders = <<>>,
                    read |-> sCanvas])
    /\ UNCHANGED <<sPageIndex, sCanvas, sRenders, sExtracted>>
    /\ UNCHANGED othersOfShared

\* the Full Page OCR button, disabled={!pdf || running}: handleFullPageOCR
\* up to its await; ocrFullPage has read the canvas
SharedClickFullPageOCR ==
    /\ ~sRunning
    /\ sClicks < MaxClicks
    /\ sClicks' = sClicks + 1
    /\ sRunning' = TRUE
    /\ sOp' = Some([kind |-> "full", page |-> sPageIndex, at |-> "recognize",
                    settled |-> sCanvas.complete /\ sCanvas.page = sPageIndex
                                /\ sRenders = <<>>,
                    read |-> sCanvas])
    /\ UNCHANGED <<sPageIndex, sCanvas, sRenders, sExtracted>>
    /\ UNCHANGED othersOfShared

\* the try block after the await, and the finally block
SharedRecord(from) ==
    /\ sExtracted' = Some([page |-> sOp[1].page, kind |-> sOp[1].kind,
                           settled |-> sOp[1].settled, from |-> from])
    /\ sRunning' = FALSE
    /\ sOp' = Undef
    /\ UNCHANGED <<sPageIndex, sCanvas, sRenders, sClicks>>
    /\ UNCHANGED othersOfShared

\* extractPdfText resolved with regions: they are the text of page
\* pageIndex + 1 of the file, and smartTextExtraction returns them
SharedNativeText ==
    /\ sOp # Undef
    /\ sOp[1].at = "source"
    /\ SharedRecord([page |-> sOp[1].page, complete |-> TRUE])

\* extractPdfText resolved with []: ocrFullPageFn(canvas, pageIndex) is
\* called and reads the canvas as it is now
SharedFallbackReads ==
    /\ sOp # Undef
    /\ sOp[1].at = "source"
    /\ sOp' = Some([sOp[1] EXCEPT !.at = "recognize", !.read = sCanvas])
    /\ UNCHANGED <<sPageIndex, sCanvas, sRenders, sRunning, sExtracted, sClicks>>
    /\ UNCHANGED othersOfShared

\* ocrFullPage resolved (with the recognized text or with an error region)
SharedRecognized ==
    /\ sOp # Undef
    /\ sOp[1].at = "recognize"
    /\ SharedRecord(sOp[1].read)

InitShared ==
    OrchIdle /\ GroupIdle /\ EnhIdle /\ ScaleIdle /\ CfgIdle /\ ViewIdle
    /\ LayoutIdle /\ FullIdle /\ BlurIdle /\ RegionIdle /\ QAIdle
    /\ SharedInit /\ HomeIdle
NextShared ==
    \/ SharedPrev
    \/ SharedNext
    \/ \E k \in 1..Len(sRenders) : SharedRenderStarts(k)
    \/ \E k \in 1..Len(sRenders) : SharedRenderEnds(k)
    \/ SharedClickSmartExtract
    \/ SharedClickFullPageOCR
    \/ SharedNativeText
    \/ SharedFallbackReads
    \/ SharedRecognized
SpecShared == InitShared /\ [][NextShared]_vars

\* ------------------------------------------ Home (src/unnamed/part_000)
\* useState<Record<number, OCRRegion[]>>({})
EmptyMapping == [p \in Pages |-> Undef]

\* mutant of OnExtractedUpdater: the new object holds the one entry
OnExtractedReplaceAll(prev, page, regs) ==
    [p \in Pages |-> IF p = page THEN Some(regs) ELSE Undef]

\* (prev) => ({ ...prev, [page]: regs })
OnExtractedUpdater(prev, page, regs) ==
    [p \in Pages |-> IF p = page THEN Some(regs) ELSE prev[p]]

\* one queued update applied to the state
ApplyUpdate(prev, u) ==
    IF u.kind = "reset" THEN EmptyMapping
    ELSE OnExtractedUpdater(prev, u.page, u.regs)

\* the queued updates applied in the order of their setExtractedText calls
RECURSIVE ApplyUpdates(_, _)
ApplyUpdates(prev, us) ==
    IF us = <<>> THEN prev
    ELSE ApplyUpdates(ApplyUpdate(prev, Head(us)), Tail(us))

\* which viewer Home mounts for a file
ViewerOf(f) ==
    IF f = Undef THEN "none" ELSE IF f[1].kind = "pdf" THEN "pdf" ELSE "image"

\* state running or batchProcessing of the mounted viewer
HomeViewerBusy == \E op \in hOps : op.mount = hMount

ResetUpdate == [kind |-> "reset", page |-> 0, regs |-> [file |-> 0, page |-> 0, op |-> 0]]

HomeInit ==
    /\ hFile = Undef
    /\ hPageIndex = 0
    /\ extractedText = EmptyMapping
    /\ hUpdates = <<>>
    /\ hOps = {}
    /\ hMount = 0
    /\ hLog = <<>>
    /\ hEvents = 0

\* onUpload(f), f null or a file of either kind
HomeOnUpload(kind) ==
    /\ hEvents < MaxHomeEvents
    /\ hEvents' = hEvents + 1
    /\ hFile' = IF kind = "null" THEN Undef
                ELSE Some([id |-> hEvents + 1, kind |-> kind])
    /\ hPageIndex' = 0
    /\ hUpdates' = Append(hUpdates, ResetUpdate)
    /\ hLog' = Append(hLog, ResetUpdate)
    /\ hMount' = IF ViewerOf(hFile') = ViewerOf(hFile) THEN hMount ELSE hMount + 1
    /\ UNCHANGED <<extractedText, hOps>>
    /\ UNCHANGED othersOfHome

\* onPageChange={setPageIndex}, called by Prev and Next of the PdfViewer
HomeOnPageChange(index) ==
    /\ ViewerOf(hFile) = "pdf"
    /\ index \in Pages \ {hPageIndex}
    /\ hEvents < MaxHomeEvents
    /\ hEvents' = hEvents + 1
    /\ hPageIndex' = index
    /\ UNCHANGED <<hFile, extractedText, hUpdates, hOps, hMount, hLog>>
    /\ UNCHANGED othersOfHome

\* Smart Extract or Full Page OCR of the mounted viewer, up to the await:
\* the PdfViewer extracts page pageIndex, the ImageViewer page 0
HomeStartExtraction ==
    /\ hFile # Undef
    /\ ~HomeViewerBusy
    /\ hEvents < MaxHomeEvents
    /\ hEvents' = hEvents + 1
    /\ LET page == IF ViewerOf(hFile) = "pdf" THEN hPageIndex ELSE 0
       IN  hOps' = hOps \cup {[op |-> hEvents + 1, file |-> hFile[1].id,
                               page |-> page, last |-> page, mount |-> hMount]}
    /\ UNCHANGED <<hFile, hPageIndex, extractedText, hUpdates, hMount, hLog>>
    /\ UNCHANGED othersOfHome

\* handleBatchProcessAllPages up to its first await
HomeStartBatch ==
    /\ ViewerOf(hFile) = "pdf"
    /\ ~HomeViewerBusy
    /\ hEvents < MaxHomeEvents
    /\ hEvents' = hEvents + 1
    /\ hOps' = hOps \cup {[op |-> hEvents + 1, file |-> hFile[1].id,
                           page |-> 0, last |-> MaxPage, mount |-> hMount]}
    /\ UNCHANGED <<hFile, hPageIndex, extractedText, hUpdates, hMount, hLog>>
    /\ UNCHANGED othersOfHome

\* the awaited recognition of an extraction, or of a batch's page, resolved:
\* onExtracted(page, res); a batch goes on to its next page
HomeOnExtracted(o) ==
    /\ o \in hOps
    /\ LET u == [kind |-> "set", page |-> o.page,
                 regs |-> [file |-> o.file, page |-> o.page, op |-> o.op]]
       IN  /\ hUpdates' = Append(hUpdates, u)
           /\ hLog' = Append(hLog, u)
    /\ hOps' = (hOps \ {o}) \cup
                (IF o.page < o.last THEN {[o EXCEPT !.page = o.page + 1]} ELSE {})
    /\ UNCHANGED <<hFile, hPageIndex, extractedText, hMount, hEvents>>
    /\ UNCHANGED othersOfHome

\* Home renders: the queued updates are applied
HomeRender ==
    /\ hUpdates # <<>>
    /\ extractedText' = ApplyUpdates(extractedText, hUpdates)
    /\ hUpdates' = <<>>
    /\ UNCHANGED <<hFile, hPageIndex, hOps, hMount, hLog, hEvents>>
    /\ UNCHANGED othersOfHome

InitHome ==
    OrchIdle /\ GroupIdle /\ EnhIdle /\ ScaleIdle /\ CfgIdle /\ ViewIdle
    /\ LayoutIdle /\ FullIdle /\ BlurIdle /\ RegionIdle /\ QAIdle
    /\ SharedIdle /\ HomeInit
NextHome ==
    \/ \E kind \in {"null", "pdf", "image"} : HomeOnUpload(kind)
    \/ \E index \in Pages : HomeOnPageChange(index)
    \/ HomeStartExtraction
    \/ HomeStartBatch
    \/ \E o \in hOps : HomeOnExtracted(o)
    \/ HomeRender
SpecHome == InitHome /\ [][NextHome]_vars

\* ===================================================== claims, under Spec
\* C1: whenever extractPdfText resolved with a non-empty region list,
\* smartTextExtraction resolves with exactly that list and neither
\* ocrFullPageFn nor the recognizer is invoked during the call.
C1_NativeResultVerbatim ==
    Len(pdfRegions) > 0 =>
        /\ ocrCalls = 0
        /\ recognizeCalls = 0
        /\ pc \in {"branch", "done"}
        /\ pc = "done" => (result = pdfRegions /\ ~raised)

C1_Witness ==
    /\ pc = "done"
    /\ Len(pdfRegions) = 2
    /\ result = pdfRegions
    /\ ocrCalls = 0

FullPageBox == [x |-> 0, y |-> 0, width |-> canvas[1], height |-> canvas[2]]

\* s starts with p
StartsWith(s, p) == Len(s) >= Len(p) /\ SubSeq(s, 1, Len(p)) = p
\* s ends with p
EndsWith(s, p) == Len(s) >= Len(p) /\ SubSeq(s, Len(s) - Len(p) + 1, Len(s)) = p

\* C2: when the structured-text step gave the empty list and the recognizer
\* call raised, the result is one Region covering the full page, with
\* confidence 0 and the text "[OCR Error: <failure detail>]".
C2_RecognizerFailureRegion ==
    (pc = "done" /\ outcome.recognize = "threw") =>
        /\ pdfRegions = <<>>
        /\ Len(result) = 1
        /\ result[1].bbox = FullPageBox
        /\ result[1].page = pageIndex
        /\ result[1].confidence = 0
        /\ StartsWith(result[1].text, ErrorPrefix)
        /\ EndsWith(result[1].text, outcome.error \o ErrorSuffix)
        /\ Len(result[1].text) = Len(ErrorPrefix) + Len(outcome.error) + 1

C2_Witness ==
    /\ pc = "done"
    /\ outcome.source = "returned"
    /\ outcome.recognize = "threw"
    /\ canvas = <<1500, 1000>>
    /\ Len(result) = 1
    /\ result[1].confidence = 0

\* C3: whatever the collaborators do, the invocation never rejects, never
\* stops before its return, and returns at least one Region.
C3_AlwaysReturnsRegion ==
    /\ ~raised
    /\ pc = "done" => Len(result) >= 1
    /\ pc # "done" => ENABLED Next

C3_Witness ==
    /\ pc = "done"
    /\ outcome.source = "threw"
    /\ outcome.preprocess = "threw"
    /\ ~raised
    /\ Len(result) = 1

\* C4: for every fragment list with at least one fragment of non-blank
\* text, extractPdfText returns a non-empty list and the recognition
\* fallback is not taken.
C4_FallbackOnlyWithoutText ==
    (/\ outcome.source = "returned"
     /\ items # Undef
     /\ \E i \in 1..Len(items[1]) : ~IsBlank(items[1][i]))
    => (Len(pdfRegions) > 0 /\ ocrCalls = 0)

\* C26: when a step of the structured-text source fails, nothing reaches the
\* caller as an exception, extractPdfText returns the empty list, and
\* smartTextExtraction calls the recognition fallback once and returns its
\* region.
C26_SourceFailureTakesFallback ==
    outcome.source = "threw" =>
        /\ ~raised
        /\ pdfRegions = <<>>
        /\ pc \in {"branch", "recognize", "done"}
        /\ pc # "branch" => ocrCalls = 1
        /\ pc = "done" =>
               /\ Len(result) = 1
               /\ result[1].bbox = FullPageBox
               /\ result[1].page = pageIndex

\* the source failed and the fallback recognized the page
C26_Witness ==
    /\ pc = "done"
    /\ outcome.source = "threw"
    /\ outcome.recognize = "returned"
    /\ items = Undef
    /\ ocrCalls = 1
    /\ recognizeCalls = 1
    /\ Len(result) = 1
    /\ result[1].confidence = 95

\* ============================================= claims, under SpecGrouper
NonBlankPair ==
    /\ gpc = "done"
    /\ Len(gitems) = 2
    /\ ~IsBlank(gitems[1])
    /\ ~IsBlank(gitems[2])

SingleTallFragment ==
    /\ gpc = "done"
    /\ Len(gitems) = 1
    /\ ~IsBlank(gitems[1])
    /\ gitems[1].height >= MIN_REGION_HEIGHT

\* text is str without its leading and trailing white space
IsTrimOf(text, str) ==
    \E i \in 1..Len(str), j \in 1..Len(str) :
        /\ i <= j
        /\ text = SubSeq(str, i, j)
        /\ ~IsSpace(str[i])
        /\ ~IsSpace(str[j])
        /\ \A k \in 1..Len(str) : (k < i \/ k > j) => IsSpace(str[k])

\* C5 as stated: a single non-blank fragment of height >= 20 gives exactly
\* one Region with confidence 1.0 and text equal to the fragment's text,
\* also for text with leading or trailing white space.
C5_SingleFragmentTextVerbatim ==
    SingleTallFragment =>
        /\ Len(gregions) = 1
        /\ gregions[1].confidence = 1
        /\ gregions[1].text = gitems[1].str

\* C5 as amended: a single non-blank fragment of height >= 20 gives exactly
\* one Region with confidence 1.0 and text equal to the fragment's text
\* without its leading and trailing white space.
C5_SingleFragmentTextTrimmed ==
    SingleTallFragment =>
        /\ Len(gregions) = 1
        /\ gregions[1].confidence = 1
        /\ IsTrimOf(gregions[1].text, gitems[1].str)

C5_Witness ==
    /\ SingleTallFragment
    /\ gitems[1].str = <<" ", "b", " ">>
    /\ Len(gregions) = 1
    /\ gregions[1].text = <<"b">>

\* the box of a fragment, as the grouper lays boxes out (top edge y - height)
FragmentBox(f) == [x |-> f.x, y |-> f.y - f.height, width |-> f.width, height |-> f.height]

\* the smallest rectangle containing the boxes a and b
UnionBox(a, b) ==
    LET left == Min(a.x, b.x)
        top == Min(a.y, b.y)
        right == Max(a.x + a.width, b.x + b.width)
        bottom == Max(a.y + a.height, b.y + b.height)
    IN  [x |-> left, y |-> top, width |-> right - left, height |-> bottom - top]

\* C6: two non-blank fragments at the same Y with a horizontal gap below 50
\* merge into one Region whose box is the union of the two boxes and whose
\* text is the two texts concatenated left to right.
C6_MergedBoxIsUnion ==
    \A l \in 1..2 :
        LET r == 3 - l
            L == gitems[l]
            R == gitems[r]
        IN  (/\ NonBlankPair
             /\ L.y = R.y
             /\ L.x < R.x
             /\ R.x - (L.x + L.width) < HorizontalVariance)
            => /\ Len(gregions) = 1
               /\ gregions[1].bbox = UnionBox(FragmentBox(L), FragmentBox(R))
               /\ gregions[1].text = L.str \o R.str

\* the fragment of a pair that lies higher on the page, and the other one
Upper == IF gitems[1].y > gitems[2].y THEN gitems[1] ELSE gitems[2]
Lower == IF gitems[1].y > gitems[2].y THEN gitems[2] ELSE gitems[1]

TwoRegionsUpperFirst ==
    /\ Len(gregions) = 2
    /\ gregions[1].confidence = 1
    /\ gregions[2].confidence = 1
    /\ gregions[1].bbox = FragmentBox(Upper)
    /\ gregions[2].bbox = FragmentBox(Lower)
    /\ IsTrimOf(gregions[1].text, Upper.str)
    /\ IsTrimOf(gregions[2].text, Lower.str)

FarApart == Abs(gitems[1].y - gitems[2].y) > 2 * LINE_HEIGHT_THRESHOLD

\* C7 as stated: two non-blank fragments whose Y values differ by more than
\* 10 units give two Regions, each with confidence 1.0, the higher one first.
C7_FarApartGivesTwoRegions ==
    (NonBlankPair /\ FarApart) => TwoRegionsUpperFirst

\* C7 as amended: two non-blank fragments, each of height >= 20, whose Y
\* values differ by more than 10 units give two Regions, each with
\* confidence 1.0, the higher one first; the invoice scenario is a case.
C7_FarApartTallGivesTwoRegions ==
    (/\ NonBlankPair
     /\ FarApart
     /\ gitems[1].height >= MIN_REGION_HEIGHT
     /\ gitems[2].height >= MIN_REGION_HEIGHT)
    => TwoRegionsUpperFirst

C7_Witness ==
    /\ gpc = "done"
    /\ gitems = <<TotalFragment, InvoiceFragment>>
    /\ Len(gregions) = 2
    /\ gregions[1].text = InvoiceText
    /\ gregions[2].text = TotalText

\* C19: every Region the grouper returns, closed mid-stream or at the end
\* of the stream, has a box of height >= 20, confidence exactly 1.0, type
\* paragraph and the requested page index.
C19_EmittedRegionsWellFormed ==
    \A i \in 1..Len(gregions) :
        /\ gregions[i].bbox.height >= MIN_REGION_HEIGHT
        /\ gregions[i].confidence = 1
        /\ gregions[i].type = "paragraph"
        /\ gregions[i].page = gpage

\* one region is closed mid-stream and dropped for its height, the other
\* is closed at the end of the stream and returned
C19_Witness ==
    /\ gpc = "done"
    /\ gpage = MaxPage
    /\ Len(gitems) = 2
    /\ gitems[1].y = 140 /\ gitems[1].height = 12 /\ ~IsBlank(gitems[1])
    /\ gitems[2].y = 100 /\ gitems[2].height = 24 /\ ~IsBlank(gitems[2])
    /\ Len(gregions) = 1
    /\ gregions[1].bbox.height = 24
    /\ gregions[1].page = MaxPage

\* ============================================= claims, under SpecEnhance
\* the ceilings and the scale the caller configured: a key it left out
\* takes preprocessCanvas's default on that path, else enhanceImageForOCR's
ConfiguredMaxWidth ==
    OrDefault(eopts.maxWidth,
              IF evia = "preprocess" THEN PreprocessMaxDim ELSE EnhanceDefaultMaxDim)
ConfiguredMaxHeight ==
    OrDefault(eopts.maxHeight,
              IF evia = "preprocess" THEN PreprocessMaxDim ELSE EnhanceDefaultMaxDim)
ConfiguredScale10 ==
    OrDefault(eopts.scale,
              IF evia = "preprocess"
              THEN Min(PreprocessMaxScale10, GetOptimalScale10(esrc[1], esrc[2]))
              ELSE EnhanceDefaultScale10)

\* C8: the output canvas is never wider than maxWidth nor higher than
\* maxHeight, called directly or through preprocessCanvas.
C8_OutputWithinCeiling ==
    epc \notin {"idle", "call"} =>
        /\ eout[1] <= ConfiguredMaxWidth
        /\ eout[2] <= ConfiguredMaxHeight

C8_Witness ==
    /\ epc = "done"
    /\ evia = "preprocess"
    /\ esrc = <<3000, 1000>>
    /\ eopts.scale = Some(40)
    /\ eopts.maxWidth = Undef
    /\ eout[1] = PreprocessMaxDim

\* ceil(dim * scale) for a scale in tenths
CeilScaled(dim, scale10) == (dim * scale10 + 9) \div 10

\* C9: each output axis is min(ceil(srcDim x scale), maxDim), so the output
\* is never zero-sized.
C9_OutputIsCeilOfScaled ==
    epc \notin {"idle", "call"} =>
        /\ eout[1] = Min(CeilScaled(esrc[1], ConfiguredScale10), ConfiguredMaxWidth)
        /\ eout[2] = Min(CeilScaled(esrc[2], ConfiguredScale10), ConfiguredMaxHeight)
        /\ eout[1] >= 1
        /\ eout[2] >= 1

\* C10: with preserveAspectRatio set (every call through preprocessCanvas),
\* the output keeps the input aspect ratio within one pixel: some factor t
\* has |outW - t * srcW| <= 1 and |outH - t * srcH| <= 1.
C10_AspectRatioPreserved ==
    (epc \notin {"idle", "call"} /\ evia = "preprocess") =>
        /\ (eout[1] - 1) * esrc[2] <= (eout[2] + 1) * esrc[1]
        /\ (eout[2] - 1) * esrc[1] <= (eout[1] + 1) * esrc[2]

\* =============================================== claims, under SpecScale
\* C11: for positive widths and heights getOptimalScale returns a value in
\* [1, 4], and a canvas with at most as many pixels as another never gets
\* the smaller scale, the rounding to one decimal included.
C11_ScaleBoundedAndMonotone ==
    spc = "done" =>
        /\ MinScale10 <= scaleA /\ scaleA <= MaxScale10
        /\ MinScale10 <= scaleB /\ scaleB <= MaxScale10
        /\ sizeA[1] * sizeA[2] <= sizeB[1] * sizeB[2] => scaleA >= scaleB

C11_Witness ==
    /\ spc = "done"
    /\ sizeA = <<1000, 700>>
    /\ sizeB = <<1500, 1000>>
    /\ scaleA = 30
    /\ scaleB = 21

\* ============================================== claims, under SpecConfig
Digits == <<"0", "1", "2", "3", "4", "5", "6", "7", "8", "9">>
DigitValue(c) == (CHOOSE d \in 1..10 : Digits[d] = c) - 1

\* the number a string of decimal digits denotes
RECURSIVE ParseDigits(_)
ParseDigits(str) ==
    IF str = <<>> THEN 0
    ELSE 10 * ParseDigits(SubSeq(str, 1, Len(str) - 1)) + DigitValue(str[Len(str)])

\* the minimum character height of a config, as a number
MinXHeight(config) == ParseDigits(config.textord_min_xheight)

PixelsOf(call) == call.args.width * call.args.height
IsMediumRes(call) ==
    PixelsOf(call) >= LowResPixels /\ PixelsOf(call) <= HighResPixels

\* C12: for every text size class and every content class, a call with more
\* than 2,000,000 pixels returns a minimum character height strictly lower
\* than the same call with a pixel count in [500,000, 2,000,000].
C12_HighResLowersMinHeight ==
    \A i \in 1..Len(ccalls), j \in 1..Len(ccalls) :
        (/\ PixelsOf(ccalls[i]) > HighResPixels
         /\ IsMediumRes(ccalls[j])
         /\ ccalls[i].args.textSize = ccalls[j].args.textSize
         /\ ccalls[i].args.textType = ccalls[j].args.textType)
        => MinXHeight(ccalls[i].value) < MinXHeight(ccalls[j].value)

\* C13: every call returns a config, and for a content class outside
\* {paragraph, single_line, multi_column, handwriting} the base profile is
\* the general (high-quality) profile, for every text size class.
C13_UnrecognizedSelectsGeneral ==
    \A i \in 1..Len(ccalls) :
        (/\ ccalls[i].args.textType # Undef
         /\ ccalls[i].args.textType[1] \notin RecognizedTextTypes)
        => ccalls[i].base = "HIGH_QUALITY_CONFIG"

\* C15: every call returns a newly created object: never a profile table
\* itself and never the object another call returned, through
\* applyConfigWithLogging as well, for every pixel-count range.
C15_ConfigCreatedFresh ==
    /\ \A i \in 1..Len(ccalls) :
          /\ ~IsProfileRef(ccalls[i].ref)
          /\ ccalls[i].applied # Undef => ~IsProfileRef(ccalls[i].applied[1])
    /\ \A i \in 1..Len(ccalls), j \in 1..Len(ccalls) :
          i # j => ccalls[i].ref # ccalls[j].ref

\* the number of tenths a string "d.d" denotes
ParseTenths(str) ==
    LET dot == CHOOSE i \in 1..Len(str) : str[i] = "."
    IN  10 * ParseDigits(SubSeq(str, 1, dot - 1)) + DigitValue(str[dot + 1])

NoiseSizeFraction(config) == ParseTenths(config.textord_noise_sizefraction)

LowResKeys == {"textord_noise_sizefraction", "textord_min_xheight", "textord_heavy_nr"}

\* C23: a call with a pixel count in [500,000, 2,000,000] returns the base
\* profile in every key; a call with fewer than 500,000 pixels returns noise
\* size fraction and minimum character height strictly higher than the base
\* profile's, heavy noise reduction off, and every other key as in the base
\* profile.
C23_ResolutionOverride ==
    \A i \in 1..Len(ccalls) :
        LET call == ccalls[i]
            base == Profiles[call.base]
        IN  /\ IsMediumRes(call) => call.value = base
            /\ PixelsOf(call) < LowResPixels =>
                   /\ NoiseSizeFraction(call.value) > NoiseSizeFraction(base)
                   /\ MinXHeight(call.value) > MinXHeight(base)
                   /\ call.value.textord_heavy_nr = "0"
                   /\ DOMAIN call.value = DOMAIN base
                   /\ \A k \in DOMAIN base \ LowResKeys : call.value[k] = base[k]

\* a low-resolution call on the small-text profile and a call at exactly
\* 500,000 pixels
C23_Witness ==
    /\ Len(ccalls) = 2
    /\ PixelsOf(ccalls[1]) = 250000
    /\ ccalls[1].base = "SMALL_TEXT_CONFIG"
    /\ MinXHeight(ccalls[1].value) = 12
    /\ NoiseSizeFraction(ccalls[1].value) = 8
    /\ PixelsOf(ccalls[2]) = LowResPixels
    /\ ccalls[2].value = Profiles[ccalls[2].base]

\* ============================================== claims, under SpecLayout
AllParagraphsFullConfidence ==
    \A i \in 1..Len(lregions) :
        lregions[i].type = "paragraph" /\ lregions[i].confidence = 1

\* C17: detectLayout returns exactly three regions for every canvas size,
\* each of type paragraph with confidence 1.0.
C17_AlwaysThreeRegions ==
    lpc = "done" => (Len(lregions) = 3 /\ AllParagraphsFullConfidence)

\* ============================================== claims, under SpecViewer
\* C14: the batch over all pages never aborts on one bad page: when the
\* rendering or the recognition of a page failed, the batch still ran to
\* its end and handed a region list to onExtracted for every other page.
C14_BatchSurvivesBadPage ==
    bpc = "done" =>
        \A i \in 1..vnumPages :
            bfailed[i] # "none" =>
                /\ ~baborted
                /\ bi = vnumPages
                /\ \A j \in 1..vnumPages :
                      j # i => (bcalled[j] # Undef /\ Len(bcalled[j][1]) >= 1)

\* C16: whatever is clicked and whatever page is shown, at most one of the
\* operations Current Page OCR, Smart Extract, Manual Regions and OCR All
\* Pages is in flight, so no two recognition attempts overlap.
C16_OneOperationInFlight ==
    /\ Len(vops) <= 1
    /\ vops # <<>> => (vrunning \/ vbatch)

C16_Witness ==
    /\ Len(vops) = 1
    /\ vops[1].kind = "fullPage"
    /\ vops[1].page = 0
    /\ vpageIndex = 1
    /\ vstarted = MaxClicks
    /\ vlast # Undef
    /\ vlast[1].page = 1

\* ============================================= claims, under SpecReading
\* the swept order is a reading order: no fragment comes after one that
\* lies more than 5 units lower, and fragments within 5 units of each
\* other come by ascending X
ReadingOrder(sorted) ==
    \A i \in 1..Len(sorted), j \in 1..Len(sorted) :
        i < j =>
            /\ ~(sorted[j].y - sorted[i].y > LINE_HEIGHT_THRESHOLD)
            /\ Abs(sorted[j].y - sorted[i].y) <= LINE_HEIGHT_THRESHOLD
                   => sorted[i].x <= sorted[j].x

\* C18: for every fragment list the order the grouper sweeps is a reading
\* order, chains such as Y = 0, 4, 8 included.
C18_SweepIsReadingOrder ==
    gpc = "done" => ReadingOrder(gsorted)

NotBlank(item) == ~IsBlank(item)

\* the region lists the grouper can return for an item list
GroupOutcomes(its, page) ==
    {GroupSorted(its, sorted, page, 0) : sorted \in SortOutcomes(its)}

\* C20: fragments with empty or white-space-only text never influence the
\* grouper: the output is an output for the list without those fragments,
\* and a list of only such fragments gives the empty output.
C20_BlankFragmentsIgnored ==
    gpc = "done" =>
        /\ gregions \in GroupOutcomes(SelectSeq(gitems, NotBlank), gpage)
        /\ (\A i \in 1..Len(gitems) : IsBlank(gitems[i])) => gregions = <<>>

\* ============================================ claims, enhancement pipeline
\* the stages of enhanceImageForOCR in pipeline order
PipelineOrder == <<"resample", "denoise", "sharpen", "contrast", "threshold">>
StageRank(stage) == CHOOSE i \in 1..Len(PipelineOrder) : PipelineOrder[i] = stage

\* C21: in every run of enhanceImageForOCR the resampling comes before any
\* filter, the stages run in the order denoise, sharpen, contrast,
\* threshold, none runs twice, and a run that returns has run exactly the
\* enabled filters.
C21_FixedPipelineOrder ==
    /\ estages # <<>> => estages[1] = "resample"
    /\ \A i \in 1..Len(estages), j \in 1..Len(estages) :
           i < j => StageRank(estages[i]) < StageRank(estages[j])
    /\ (epc = "done" /\ ~ethrew) => estages = <<"resample">> \o EnabledStages(eeff)

\* a run with denoise and contrast switched off
C21_Witness ==
    /\ epc = "done"
    /\ ~ethrew
    /\ eopts.denoise = Some(FALSE)
    /\ eopts.enhanceContrast = Some(FALSE)
    /\ estages = <<"resample", "sharpen", "threshold">>

\* ============================================ claims, under SpecFullPage
AllStages == <<"resample", "denoise", "sharpen", "contrast", "threshold">>
SelectorFixed ==
    fsel # Undef => (fsel[1].textSize = Some("medium") /\ fsel[1].textType = Some("paragraph"))

\* C22 as stated: a page of more than 1,000,000 pixels is enhanced at scale
\* 1.5 with fewer stages, any other page at scale min(2, optimalScale) with
\* all four stages; the selector is called with medium and paragraph.
C22_FullPreprocessingBelowThreshold ==
    /\ fpc # "call" =>
           IF fcanvas[1] * fcanvas[2] > 1000000
           THEN feff.scale = 15 /\ fstages # AllStages
           ELSE /\ feff.scale = Min(20, GetOptimalScale10(fcanvas[1], fcanvas[2]))
                /\ fstages = AllStages
    /\ SelectorFixed

\* C22 as amended: denoise never runs; a page of more than 1,000,000 pixels
\* is enhanced at scale 1.5 with the contrast stage alone, any other page at
\* scale min(2, optimalScale) with sharpen, contrast and threshold; the
\* selector is called with medium and paragraph.
C22_FullPagePreprocessing ==
    /\ fpc # "call" =>
           IF fcanvas[1] * fcanvas[2] > 1000000
           THEN feff.scale = 15 /\ fstages = <<"resample", "contrast">>
           ELSE /\ feff.scale = Min(20, GetOptimalScale10(fcanvas[1], fcanvas[2]))
                /\ fstages = <<"resample", "sharpen", "contrast", "threshold">>
    /\ SelectorFixed

\* a page of exactly 1,000,000 pixels went through ocrFullPage
C22_Witness ==
    /\ fpc = "done"
    /\ fcanvas = <<1000, 1000>>
    /\ feff.scale = 20
    /\ fstages = <<"resample", "sharpen", "contrast", "threshold">>
    /\ fsel = Some([width |-> 2000, height |-> 2000,
                    textSize |-> Some("medium"), textType |-> Some("paragraph")])

\* ================================================ claims, under SpecBlur
\* C24: the blur convolves along both axes, so a channel one pixel wide
\* whose rows differ is changed by it.
C24_BlurCrossesRows ==
    (/\ blurPc = "done"
     /\ \A y \in 1..Len(original) : Len(original[y]) = 1
     /\ \E y \in 1..Len(original) : original[y] # original[1])
    => data # original

\* ============================================= claims, under SpecRegions
\* C25: ocrRegions returns one result per input region, in input order, each
\* with the id, type and bbox of its input and the page stamped; an invalid
\* region gets empty text and no recognizer call; a region whose recognition
\* failed gets the error-marker text and confidence 0.
C25_RegionsNeverFatal ==
    rpc = "done" =>
        /\ Len(rresults) = Len(rregions)
        /\ \A i \in 1..Len(rregions) :
               /\ rresults[i].id = rregions[i].id
               /\ rresults[i].type = rregions[i].type
               /\ rresults[i].bbox = rregions[i].bbox
               /\ rresults[i].page = rpage
               /\ IsInvalidRegion(rregions[i]) =>
                      (rresults[i].text = Some(<<>>) /\ i \notin rinvoked)
               /\ rfailed[i] # Undef =>
                      /\ rresults[i].text = Some(ErrorText(rfailed[i][1]))
                      /\ rresults[i].confidence = Some(0)

\* ================================================== claims, under SpecQA
\* C27: the pipeline factory is invoked at most once, and every call of
\* loadQAPipeline returns the same promise, for any interleaving of calls.
C27_PipelineCreatedOnce ==
    /\ Len(qpipes) <= 1
    /\ \A c \in Callers, d \in Callers :
           (qret[c] # 0 /\ qret[d] # 0) => qret[c] = qret[d]

\* ============================================== claims, under SpecShared
\* C28: the regions a Smart Extract started on the finished rendering of
\* page p records with onExtracted(p, ...) come from page p, whatever Prev
\* and Next presses happen while it runs.
C28_SmartExtractReadsOwnPage ==
    (/\ sExtracted # Undef
     /\ sExtracted[1].kind = "smart"
     /\ sExtracted[1].settled)
    => sExtracted[1].from = [page |-> sExtracted[1].page, complete |-> TRUE]

\* ================================================ claims, under SpecHome
\* the calls of onExtracted for page p since the mapping was last reset
CallsFor(p) ==
    LET resets == {i \in 1..Len(hLog) : hLog[i].kind = "reset"}
    IN  {i \in 1..Len(hLog) :
            /\ hLog[i].kind = "set"
            /\ hLog[i].page = p
            /\ \A r \in resets : r < i}

\* the result of the last of them, if there is one
LastCompleted(p) ==
    IF CallsFor(p) = {} THEN Undef
    ELSE Some(hLog[CHOOSE i \in CallsFor(p) : \A j \in CallsFor(p) : j <= i].regs)

\* C29: once the queued updates are applied, each page's entry is the
\* result of the last onExtracted call for that page since the mapping was
\* reset, whatever calls for other pages came between: no update is lost.
C29_NoLostUpdate ==
    \A p \in Pages : ApplyUpdates(extractedText, hUpdates)[p] = LastCompleted(p)

\* two pages hold results and one of them was extracted twice
C29_Witness ==
    /\ hOps = {}
    /\ hUpdates = <<>>
    /\ \A p \in Pages : extractedText[p] # Undef
    /\ \E p \in Pages : Cardinality(CallsFor(p)) >= 2

\* C30: every entry of the mapping was extracted from the current file.
C30_OnlyCurrentFile ==
    \A p \in Pages :
        extractedText[p] # Undef =>
            /\ hFile # Undef
            /\ extractedText[p][1].file = hFile[1].id
====
